---- MODULE Spec2Model ----
(***************************************************************************)
(* A model of the Animara assistant proxy: the session stores of           *)
(* core/rag_proxy.py, core/rag_proxy_v10_6.py and animara_rag_proxy_v12.py,*)
(* the chat-completions turn with its two tool loops, and the helpers of   *)
(* animara_v12_2_upgrade.py.                                               *)
(*                                                                         *)
(* A text is modelled by what the code reads of it.  Session contents are  *)
(* records [len, pruned] (the code only takes len() and a prefix of them); *)
(* texts produced by a backend are sequences of atoms, so that the regular *)
(* expressions applied to them are computed and not assumed.               *)
(***************************************************************************)
EXTENDS Integers, Sequences, FiniteSets, TLC

VARIABLES
    build,        \* which revision of the proxy is running
    now,          \* time.time(), in seconds
    sessions,     \* SessionManager.sessions: person_id -> Session, or NoSession
    nextSid,      \* identity of the next Session object to be constructed
    ret,          \* what the last completed call returned
    ops,          \* number of calls made so far (bounds the exploration)
    arg,          \* the arguments of the helper function under test
    turn,         \* the chat-completions request being served
    openai_client, \* rag_proxy_v10_6.py: whether the OpenAI client was constructed
    parked,       \* a second request in flight, suspended at one of its awaits
    fact_tasks,   \* the background tasks running extract_and_save_facts
    milvus,       \* the rows inserted into the "memories" collection
    workspace     \* WorkspaceLoader: the files, the cache and its time

vars == <<build, now, sessions, nextSid, ret, ops, arg, turn, openai_client,
          parked, fact_tasks, milvus, workspace>>

\* what a request leaves alone when it starts no task and touches no file
beside == <<parked, fact_tasks, milvus, workspace>>

\* what the session manager's calls leave alone
outside == <<arg, turn, openai_client, parked, fact_tasks, milvus, workspace>>

(***************************************************************************)
(* Program constants.                                                      *)
(***************************************************************************)
session_max_messages == 20
session_timeout == 1800
session_timeout_minutes == 30
prune_after_messages == 3
prune_tool_max_chars == 200
flush_threshold == 28000
max_tool_iterations == 5
L_out == 8000                  \* truncate_tool_result: max_chars when none is given
PrunedMarkerLen == 12          \* len("... [pruned]")
search_top_k == 5              \* also rag_top_k
context_window == 32768
min_response_tokens == 768
rag_marker == 36               \* len of the heading of the RAG block
rag_floor == 100
prompt_floor == 500
desired_max == 2048
reserve == 512
min_tokens == 256
response_cap == 4096
cache_ttl == 60

(***************************************************************************)
(* Bounds of the exploration.                                              *)
(***************************************************************************)
MaxText == 40                  \* characters of a text given to the token estimators
MaxRaceRounds == 2             \* tool calls the backend asks for in a turn beside a flush
MaxRounds == 1                 \* tool calls the backend asks for in one of two overlapping turns
MaxOps == 6                    \* calls (and clock ticks) per behaviour
PreFill == 19                  \* messages held by the warmed-up initial session
MaxLen == 5                    \* length of the strings given to the helpers
MaxChars == 6                  \* largest max_chars given to truncate_tool_result
MaxWords == 3                  \* words of a text given to the router
MaxHits == 2                   \* hits a vector search of the memories returns
MaxHistory == 3                \* messages given to truncate_context_if_needed
MaxServers == 4                \* servers of the MCP configuration
MaxLoaded == 4                 \* messages of a session that is over flush_threshold
MaxTurns == 3                  \* requests served one after the other

Owner == "owner_sergey"
Guest == "guest42"
Callers == {Owner, Guest}

NoSession == [session_id |-> 0]
NoRet == [op |-> "none"]

Text(n) == [len |-> n, pruned |-> FALSE]

Max(a, b) == IF a >= b THEN a ELSE b
Min(a, b) == IF a <= b THEN a ELSE b

(***************************************************************************)
(* count_tokens: len(text) // 3, 0 for the empty text.                     *)
(***************************************************************************)
count_tokens(c) == IF c.len = 0 THEN 0 ELSE c.len \div 3

RECURSIVE SumTokens(_)
SumTokens(msgs) ==
    IF msgs = <<>> THEN 0 ELSE Head(msgs).tokens + SumTokens(Tail(msgs))

(***************************************************************************)
(* core Session                                                            *)
(***************************************************************************)
NewSession(sid, t) ==
    [session_id |-> sid, messages |-> <<>>, last_activity |-> t,
     total_tokens |-> 0, tool_calls |-> 0, god_mode |-> FALSE,
     facts_extracted |-> <<>>, flush_count |-> 0, appended |-> 0]

\* is_expired as it would be with >= for >: a session idle for exactly the timeout expires
is_expired_at_timeout(s, t) == t - s.last_activity >= session_timeout

\* Session.is_expired
is_expired(s, t) == t - s.last_activity > session_timeout

\* The 1-based position of the prune_after_messages-th most recent assistant
\* message, 0 when there are fewer (prune_before_idx + 1).
PruneBefore(msgs) ==
    LET A == {i \in 1..Len(msgs) : msgs[i].role = "assistant"}
        hit == {i \in A : Cardinality({j \in A : j >= i}) = prune_after_messages}
    IN IF hit = {} THEN 0 ELSE CHOOSE i \in hit : TRUE

PrunedContent(c) ==
    [len |-> Min(c.len, prune_tool_max_chars) + PrunedMarkerLen, pruned |-> TRUE]

PruneMessage(m) ==
    IF m.is_tool /\ m.content.len > prune_tool_max_chars
    THEN [m EXCEPT !.content = PrunedContent(m.content),
                   !.tokens = count_tokens(PrunedContent(m.content))]
    ELSE m

\* _prune_old_tool_results as it would be without prune_before_idx: every
\* long tool result is cut, the recent ones too
prune_old_tool_results_everywhere(s) ==
    LET msgs == [i \in 1..Len(s.messages) |-> PruneMessage(s.messages[i])]
        tokens_saved == SumTokens(s.messages) - SumTokens(msgs)
    IN [s EXCEPT !.messages = msgs,
                 !.total_tokens = IF tokens_saved > 0 THEN @ - tokens_saved ELSE @]

\* Session._prune_old_tool_results
prune_old_tool_results(s) ==
    LET pos == PruneBefore(s.messages)
        msgs == [i \in 1..Len(s.messages) |->
                    IF i < pos THEN PruneMessage(s.messages[i]) ELSE s.messages[i]]
        tokens_saved == SumTokens(s.messages) - SumTokens(msgs)
    IN IF pos - 1 <= 0 THEN s
       ELSE [s EXCEPT !.messages = msgs,
                      !.total_tokens = IF tokens_saved > 0 THEN @ - tokens_saved ELSE @]

\* add_message as it would be with pop() for pop(0): the newest message is evicted
add_message_pops_last(s, role, content, is_tool, t) ==
    LET tokens == count_tokens(content)
        m == [role |-> role, content |-> content, tokens |-> tokens,
              is_tool |-> is_tool, id |-> s.appended + 1]
        s1 == [s EXCEPT !.messages = Append(@, m), !.last_activity = t,
                        !.total_tokens = @ + tokens, !.appended = @ + 1]
        s2 == prune_old_tool_results(s1)
        n == Len(s2.messages)
    IN IF n > session_max_messages
       THEN [s2 EXCEPT !.messages = SubSeq(@, 1, n - 1),
                       !.total_tokens = @ - s2.messages[n].tokens]
       ELSE s2

\* Session.add_message
add_message(s, role, content, is_tool, t) ==
    LET tokens == count_tokens(content)
        m == [role |-> role, content |-> content, tokens |-> tokens,
              is_tool |-> is_tool, id |-> s.appended + 1]
        s1 == [s EXCEPT !.messages = Append(@, m), !.last_activity = t,
                        !.total_tokens = @ + tokens, !.appended = @ + 1]
        s2 == prune_old_tool_results(s1)
    IN IF Len(s2.messages) > session_max_messages
       THEN [s2 EXCEPT !.messages = Tail(@),
                       !.total_tokens = @ - Head(s2.messages).tokens]
       ELSE s2

\* compact as it would be with messages[-2:]
compact_keeps_two(s) ==
    LET n == Len(s.messages)
        kept == SubSeq(s.messages, Max(1, n - 1), n)
    IN [s EXCEPT !.messages = kept, !.total_tokens = SumTokens(kept),
                 !.flush_count = @ + 1]

\* Session.compact
compact(s) ==
    LET n == Len(s.messages)
        kept == SubSeq(s.messages, Max(1, n - 2), n)
    IN [s EXCEPT !.messages = kept, !.total_tokens = SumTokens(kept),
                 !.flush_count = @ + 1]

(***************************************************************************)
(* core SessionManager.get_or_create.  ss is the session map, sid the      *)
(* identity the next constructed Session gets, t the time of the call.     *)
(* The summary task started for an expired session (_finalize_session)     *)
(* reads the old object and writes the workspace only.                     *)
(***************************************************************************)
HasSession(ss, p) == ss[p].session_id # 0

get_or_create(ss, p, sid, t) ==
    IF HasSession(ss, p) /\ ~is_expired(ss[p], t)
    THEN ss
    ELSE [ss EXCEPT ![p] = NewSession(sid, t)]

\* rag_proxy_v10_6.py: the same decision, written the other way round
get_or_create_v10_6(ss, p, sid, t) ==
    IF HasSession(ss, p)
    THEN IF is_expired(ss[p], t) THEN [ss EXCEPT ![p] = NewSession(sid, t)] ELSE ss
    ELSE [ss EXCEPT ![p] = NewSession(sid, t)]

(***************************************************************************)
(* animara_rag_proxy_v12.py: Session is a dataclass whose messages are a   *)
(* deque(maxlen = session_max_messages); the messages carry no estimate.   *)
(***************************************************************************)
NewSessionV12(sid, t) ==
    [session_id |-> sid, messages |-> <<>>, total_tokens |-> 0,
     last_activity |-> t, god_mode |-> FALSE, flush_done |-> FALSE,
     appended |-> 0]

\* deque.append with maxlen: a full deque drops its leftmost element
DequeAppend(q, m) ==
    IF Len(q) >= session_max_messages THEN Append(Tail(q), m) ELSE Append(q, m)

\* SessionManager._cleanup
cleanup_v12(ss, t) ==
    [q \in DOMAIN ss |->
        IF HasSession(ss, q) /\ (t - ss[q].last_activity) > session_timeout_minutes * 60
        THEN NoSession ELSE ss[q]]

\* SessionManager.get_or_create
get_or_create_v12(ss, p, sid, t) ==
    LET c == cleanup_v12(ss, t)
        c1 == IF ~HasSession(c, p) THEN [c EXCEPT ![p] = NewSessionV12(sid, t)] ELSE c
    IN [c1 EXCEPT ![p].last_activity = t]

\* SessionManager.add_message
add_message_v12(ss, p, role, content, sid, t) ==
    LET s1 == get_or_create_v12(ss, p, sid, t)
        m == [role |-> role, content |-> content, id |-> s1[p].appended + 1]
    IN [s1 EXCEPT ![p].messages = DequeAppend(@, m),
                  ![p].total_tokens = @ + (content.len \div 3),
                  ![p].appended = @ + 1]

\* the estimate of a v12 message: len(content) // 3
RECURSIVE SumEstimatesV12(_)
SumEstimatesV12(msgs) ==
    IF msgs = <<>> THEN 0
    ELSE (Head(msgs).content.len \div 3) + SumEstimatesV12(Tail(msgs))

(***************************************************************************)
(* The calls, as actions.                                                  *)
(***************************************************************************)
CoreBuilds == {"core", "v10_6"}

Installed(ss, ss2, p) == ss2[p].session_id # ss[p].session_id

\* time passes
Tick(d) ==
    /\ ops < MaxOps
    /\ now' = now + d
    /\ ops' = ops + 1
    /\ UNCHANGED <<build, sessions, nextSid, ret>>
    /\ UNCHANGED outside

GetOrCreate(p) ==
    /\ ops < MaxOps
    /\ build \in CoreBuilds
    /\ sessions' = IF build = "core" THEN get_or_create(sessions, p, nextSid, now)
                   ELSE get_or_create_v10_6(sessions, p, nextSid, now)
    /\ nextSid' = IF Installed(sessions, sessions', p) THEN nextSid + 1 ELSE nextSid
    /\ ret' = [op |-> "get_or_create", caller |-> p, session |-> sessions'[p]]
    /\ ops' = ops + 1
    /\ UNCHANGED <<build, now>>
    /\ UNCHANGED outside

AddMessage(p, role, content) ==
    /\ ops < MaxOps
    /\ build \in CoreBuilds
    /\ HasSession(sessions, p)
    /\ sessions' = [sessions EXCEPT
                      ![p] = add_message(@, role, content, role = "tool", now)]
    /\ ret' = [op |-> "add_message", caller |-> p]
    /\ ops' = ops + 1
    /\ UNCHANGED <<build, now, nextSid>>
    /\ UNCHANGED outside

Compact(p) ==
    /\ ops < MaxOps
    /\ build \in CoreBuilds
    /\ HasSession(sessions, p)
    /\ sessions' = [sessions EXCEPT ![p] = compact(@)]
    /\ ret' = [op |-> "compact", caller |-> p]
    /\ ops' = ops + 1
    /\ UNCHANGED <<build, now, nextSid>>
    /\ UNCHANGED outside

GetOrCreateV12(p) ==
    /\ ops < MaxOps
    /\ build = "v12"
    /\ sessions' = get_or_create_v12(sessions, p, nextSid, now)
    /\ nextSid' = IF Installed(sessions, sessions', p) THEN nextSid + 1 ELSE nextSid
    /\ ret' = [op |-> "get_or_create", caller |-> p, session |-> sessions'[p]]
    /\ ops' = ops + 1
    /\ UNCHANGED <<build, now>>
    /\ UNCHANGED outside

AddMessageV12(p, role, content) ==
    /\ ops < MaxOps
    /\ build = "v12"
    /\ sessions' = add_message_v12(sessions, p, role, content, nextSid, now)
    /\ nextSid' = IF Installed(sessions, sessions', p) THEN nextSid + 1 ELSE nextSid
    /\ ret' = [op |-> "add_message", caller |-> p]
    /\ ops' = ops + 1
    /\ UNCHANGED <<build, now>>
    /\ UNCHANGED outside

(***************************************************************************)
(* Initial states.  A SessionManager starts with no session; the warmed-up *)
(* start is the state after PreFill short user messages of the owner.      *)
(***************************************************************************)
\* the session after n <= session_max_messages calls add_message("user", <4 chars>)
\* at time 0: nothing is pruned (no assistant message) and nothing evicted
WarmMessages(n) ==
    [i \in 1..n |-> [role |-> "user", content |-> Text(4),
                     tokens |-> count_tokens(Text(4)), is_tool |-> FALSE, id |-> i]]

WarmCore(n) ==
    [NewSession(1, 0) EXCEPT !.messages = WarmMessages(n),
                             !.total_tokens = n * count_tokens(Text(4)),
                             !.appended = n]

WarmV12(n) ==
    [NewSessionV12(1, 0) EXCEPT
        !.messages = [i \in 1..n |-> [role |-> "user", content |-> Text(4), id |-> i]],
        !.total_tokens = n * (4 \div 3),
        !.appended = n]

NoSessions == [p \in Callers |-> NoSession]

NoArg == [fn |-> "none"]

\* no chat-completions request is being served
NoTurn ==
    [pc |-> "idle", path |-> "none", person_id |-> "", enable_tools |-> FALSE,
     user_message |-> "", first |-> 0, iteration |-> 0, llm_messages |-> <<>>,
     openai_messages |-> <<>>, content |-> <<>>, call |-> "", pending |-> <<>>,
     tool_results |-> <<>>, reply |-> <<>>, backend_calls |-> 0,
     flush_calls |-> 0, flush_result |-> "", after_flush |-> NoSession,
     flush_context |-> {},
     workspace_ctx |-> {}, vector_searches |-> 0,
     lexical_searches |-> 0, handler_runs |-> 0, responses |-> <<>>, execs |-> <<>>, raised_by |-> "",
     route |-> "", needed_tools |-> {}, mcp_config |-> {}, agent_runs |-> 0,
     direct |-> [kind |-> "none", content |-> <<>>]]

\* the workspace before the first read: the persona file exists, today's
\* notes do not, the cache is empty; written tells that write_memory has
\* completed since the last read
NoWorkspace ==
    [files |-> [f \in {"SOUL.md", "memory/today.md"} |-> IF f = "SOUL.md" THEN 1 ELSE 0],
     cache |-> [f \in {"SOUL.md", "memory/today.md"} |-> -1],
     cache_time |-> [f \in {"SOUL.md", "memory/today.md"} |-> 0],
     written |-> FALSE]

\* no second request, no background task, an empty collection
InitBeside ==
    /\ parked = NoTurn
    /\ fact_tasks = <<>>
    /\ milvus = <<>>
    /\ workspace = NoWorkspace

InitCommon ==
    /\ InitBeside
    /\ now = 0
    /\ ret = NoRet
    /\ ops = 0
    /\ arg = NoArg
    /\ turn = NoTurn
    /\ openai_client = FALSE

InitSessions ==
    /\ InitCommon
    /\ build \in {"core", "v12"}
    /\ \/ sessions = NoSessions /\ nextSid = 1
       \/ /\ nextSid = 2
          /\ sessions = [NoSessions EXCEPT
                            ![Owner] = IF build = "v12" THEN WarmV12(PreFill)
                                       ELSE WarmCore(PreFill)]

\* add_message as the chat handlers call it: user and assistant texts, tool results
SessionInputs ==
    {<<"user", Text(4)>>, <<"assistant", Text(4)>>,
     <<"tool", Text(2)>>, <<"tool", Text(201)>>, <<"tool", Text(300)>>}

SessionInputsV12 ==
    {<<"user", Text(0)>>, <<"user", Text(4)>>, <<"assistant", Text(5)>>}

NextSessions ==
    \/ GetOrCreate(Owner)
    \/ \E in \in SessionInputs : AddMessage(Owner, in[1], in[2])
    \/ Compact(Owner)
    \/ \E in \in SessionInputsV12 : AddMessageV12(Owner, in[1], in[2])

SpecSessions == InitSessions /\ [][NextSessions]_vars

(***************************************************************************)
(* The session manager under a moving clock, for two callers.              *)
(***************************************************************************)
InitManager ==
    /\ InitCommon
    /\ build \in {"core", "v10_6", "v12"}
    /\ sessions = NoSessions
    /\ nextSid = 1

NextManager ==
    \/ Tick(1)
    \/ Tick(session_timeout)
    \/ \E p \in Callers : GetOrCreate(p)
    \/ \E p \in Callers : AddMessage(p, "user", Text(4))
    \/ \E p \in Callers : GetOrCreateV12(p)
    \/ \E p \in Callers : AddMessageV12(p, "user", Text(4))

SpecManager == InitManager /\ [][NextManager]_vars

(***************************************************************************)
(* animara_v12_2_upgrade.py: truncate_tool_result.  Strings are sequences  *)
(* of characters; the slices are Python's.                                 *)
(***************************************************************************)
\* s[:n] for n >= 0
PyPrefix(s, n) == SubSeq(s, 1, Min(n, Len(s)))

\* s[i:] for any integer i: a negative i counts from the end, and -0 is 0
PyFrom(s, i) ==
    LET start == IF i < 0 THEN Max(Len(s) + i, 0) ELSE Min(i, Len(s))
    IN SubSeq(s, start + 1, Len(s))

\* the number of decimal digits of n >= 0
Digits(n) == IF n < 10 THEN 1 ELSE IF n < 100 THEN 2 ELSE IF n < 1000 THEN 3 ELSE 4

\* f"\n\n... [обрезано {n} символов] ...\n\n": 16 characters, the digits of n, 16 more
TruncMarker(n) == [i \in 1..(16 + Digits(n) + 16) |-> "#"]

truncate_tool_result(result, max_chars) ==
    IF Len(result) <= max_chars
    THEN result
    ELSE LET half == max_chars \div 2
         IN PyPrefix(result, half) \o TruncMarker(Len(result) - max_chars)
                \o PyFrom(result, -half)

\* strings over {a, b} of length at most MaxLen
RECURSIVE StringsOfLen(_)
StringsOfLen(n) ==
    IF n = 0 THEN {<<>>}
    ELSE {Append(w, c) : w \in StringsOfLen(n - 1), c \in {"a", "b"}}

Strings == UNION {StringsOfLen(n) : n \in 0..MaxLen}

InitTruncate ==
    /\ InitBeside
    /\ build = "v12.2"
    /\ now = 0
    /\ sessions = NoSessions
    /\ nextSid = 1
    /\ ret = NoRet
    /\ ops = 0
    /\ arg \in [fn : {"truncate_tool_result"}, result : Strings, max_chars : 0..MaxChars]
    /\ turn = NoTurn
    /\ openai_client = FALSE

TruncateToolResult ==
    /\ arg.fn = "truncate_tool_result"
    /\ ret = NoRet
    /\ ret' = [op |-> "truncate_tool_result",
               value |-> truncate_tool_result(arg.result, arg.max_chars)]
    /\ UNCHANGED <<build, now, sessions, nextSid, ops, arg, turn, openai_client, parked, fact_tasks, milvus, workspace>>

NextTruncate == TruncateToolResult

SpecTruncate == InitTruncate /\ [][NextTruncate]_vars

(***************************************************************************)
(* What a backend writes, as a sequence of atoms:                          *)
(*   "T"  <tool>            "/T" </tool>                                   *)
(*   "J"  {"name": "web_search", "params": {"query": "q"}}                 *)
(*   "U"  {"name": "nope", "params": {}}       (no such tool)              *)
(*   "L"  {"name": ["web_search"], "params": {}}   (the name is a list)    *)
(*   "E"  {}                "B"  {not json}                                *)
(*   "F"  system_check()    "x"  hello          "_"  white space           *)
(* and what the proxy writes itself: "Z" is the god-mode prefix, the       *)
(* upper-case words are its canned replies.                                *)
(***************************************************************************)
Objects == {"J", "U", "L", "E", "B"}

AtomLen(a) ==
    CASE a = "T" -> 6 [] a = "/T" -> 7 [] a = "J" -> 48 [] a = "U" -> 30
      [] a = "L" -> 38 [] a = "E" -> 2 [] a = "B" -> 10 [] a = "F" -> 14
      [] a = "x" -> 5 [] a = "_" -> 1 [] a = "Z" -> 2
      [] a = "LIMIT" -> 39 [] a = "GOD_LIMIT" -> 63 [] a = "NO_SDK" -> 56
      [] a = "NO_CLIENT" -> 53 [] a = "GOD_AUTH" -> 55 [] a = "GOD_RATE" -> 53
      [] a = "GOD_ERROR" -> 26 [] a = "CODEX_ERROR" -> 22
      [] a = "CODEX_TIMEOUT" -> 17 [] a = "K" -> 7 [] a = "/K" -> 8
      [] a = "LLM_ERROR" -> 16 [] OTHER -> 37

RECURSIVE StrLen(_)
StrLen(text) == IF text = <<>> THEN 0 ELSE AtomLen(Head(text)) + StrLen(Tail(text))

\* the first position from i on that holds no white space (Len + 1 when none)
SkipSpace(text, i) ==
    LET rest == {j \in i..Len(text) : text[j] # "_"}
    IN IF rest = {} THEN Len(text) + 1 ELSE CHOOSE j \in rest : \A k \in rest : j <= k

\* re.search(r'<tool>\s*(\{.*?\})\s*</tool>', text, re.DOTALL): the group of the
\* leftmost match, as <<first, last>> positions, or <<>> when nothing matches
ToolCallGroup(text) ==
    LET n == Len(text)
        Ends(j) == {k \in j..n : /\ text[k] \in Objects
                                 /\ SkipSpace(text, k + 1) <= n
                                 /\ text[SkipSpace(text, k + 1)] = "/T"}
        Starts == {i \in 1..n : /\ text[i] = "T"
                                /\ SkipSpace(text, i + 1) <= n
                                /\ text[SkipSpace(text, i + 1)] \in Objects
                                /\ Ends(SkipSpace(text, i + 1)) # {}}
    IN IF Starts = {} THEN <<>>
       ELSE LET i == CHOOSE a \in Starts : \A b \in Starts : a <= b
                j == SkipSpace(text, i + 1)
                k == CHOOSE a \in Ends(j) : \A b \in Ends(j) : a <= b
            IN <<j, k>>

\* Python values a tool call can be: None, {} and a dict with a "name"
None == [dict |-> FALSE, keys |-> 0, name |-> ""]
EmptyDict == [dict |-> TRUE, keys |-> 0, name |-> ""]
Call(name) == [dict |-> TRUE, keys |-> 2, name |-> name]

\* the name "L" carries: a list, which no dict lookup accepts
ListName == "[list]"

\* json.loads of one matched group; None stands for the exception it raises
json_loads(text, g) ==
    IF g[1] # g[2] THEN None
    ELSE CASE text[g[1]] = "J" -> Call("web_search")
           [] text[g[1]] = "U" -> Call("nope")
           [] text[g[1]] = "L" -> Call(ListName)
           [] text[g[1]] = "E" -> EmptyDict
           [] OTHER -> None

\* parse_tool_call.  rag_proxy.py knows the <tool>JSON</tool> format only;
\* rag_proxy_v10_6.py then tries the function-call patterns.
parse_tool_call(b, text) ==
    LET g == ToolCallGroup(text)
        parsed == IF g = <<>> THEN None ELSE json_loads(text, g)
    IN IF parsed.dict THEN parsed
       ELSE IF b = "v10_6" /\ \E i \in 1..Len(text) : text[i] = "F"
       THEN Call("system_check")
       ELSE None

\* bool(tool_call)
Truthy(tool_call) == tool_call.dict /\ tool_call.keys > 0

\* re.sub of a lazy open.*?close pattern by '': every leftmost block goes; ws says
\* that the pattern ends in \s*, which takes the white space after the block
RECURSIVE RemoveBlocks(_, _, _, _)
RemoveBlocks(text, open, close, ws) ==
    LET n == Len(text)
        opens == {i \in 1..n : text[i] = open /\ \E k \in (i + 1)..n : text[k] = close}
    IN IF opens = {} THEN text
       ELSE LET i == CHOOSE a \in opens : \A b \in opens : a <= b
                closes == {k \in (i + 1)..n : text[k] = close}
                k == CHOOSE a \in closes : \A b \in closes : a <= b
                next == IF ws THEN SkipSpace(text, k + 1) ELSE k + 1
            IN SubSeq(text, 1, i - 1) \o RemoveBlocks(SubSeq(text, next, n), open, close, ws)

\* re.sub(r'<tool>.*?</tool>', '', content, flags=re.DOTALL)
RemoveToolBlocks(text) == RemoveBlocks(text, "T", "/T", FALSE)

\* str.strip()
Strip(text) ==
    LET solid == {i \in 1..Len(text) : text[i] # "_"}
    IN IF solid = {} THEN <<>>
       ELSE SubSeq(text, CHOOSE a \in solid : \A b \in solid : a <= b,
                         CHOOSE a \in solid : \A b \in solid : a >= b)

(***************************************************************************)
(* ToolsManager                                                            *)
(***************************************************************************)
\* ToolsManager._register_builtin_tools: the keys of self.tools
Tools == {"web_search", "yougile_tasks", "yougile_find", "yougile_create", "system_check"}

\* init_services sets the global before any request is served
tools_manager == TRUE

\* `name not in self.tools` hashes the name
Unhashable(name) == name = ListName

NoText == [kind |-> "none", len |-> 0]
NoOutcome == [kind |-> "none", len |-> 0]

\* what a handler does once it is awaited: it returns len characters, it
\* outlives tool_timeout, or it raises an exception whose str() has len characters
ToolOutcomes(name) ==
    IF name = "web_search"
    THEN {[kind |-> "returns", len |-> 40], [kind |-> "returns", len |-> 9000],
          [kind |-> "timeout", len |-> 0], [kind |-> "raises", len |-> 7]}
    ELSE {[kind |-> "returns", len |-> 40]}

\* ToolsManager.execute_tool(name, params), the handler behaving as h
execute_tool(b, name, h) ==
    IF Unhashable(name)
    THEN [raised |-> TRUE, invoked |-> FALSE, value |-> NoText]
    ELSE IF name \notin Tools
    THEN [raised |-> FALSE, invoked |-> FALSE,
          value |-> [kind |-> "unknown", len |-> 26 + Len(name)]]
    ELSE [raised |-> FALSE, invoked |-> TRUE,
          value |-> CASE h.kind = "returns" -> [kind |-> "output", len |-> h.len]
                      [] h.kind = "timeout" ->
                           [kind |-> "timeout",
                            len |-> (IF b = "core" THEN 22 ELSE 10) + Len(name)]
                      [] OTHER -> [kind |-> "error", len |-> 11 + Len(name) + h.len]]

(***************************************************************************)
(* The hybrid retriever: hybrid_search of rag_proxy.py (the same in        *)
(* rag_proxy_v10_6.py) and HybridSearch.search of animara_rag_proxy_v12.py. *)
(* A hit is [content, score]; a vector hit's score is its similarity in    *)
(* tenths, a lexical hit's score its BM25 score.  The weighted scores are  *)
(* kept in units of 1/200: vector_weight 0.7 on a tenth is 14, half of it  *)
(* 7, bm25_weight 0.3 is 60.  mem and conv are what Milvus returned for    *)
(* the filter person_id == caller, index what the BM25 index scores for    *)
(* the query, best first.                                                  *)
(***************************************************************************)
Scaled(hits, w) == [i \in DOMAIN hits |-> [hits[i] EXCEPT !.score = @ * w]]

RECURSIVE Merge(_, _, _)
\* core: results[content] = results.get(content, 0) + score, in insertion
\* order; v12: results.append
Merge(rs, hits, dict) ==
    IF hits = <<>> THEN rs
    ELSE LET h == Head(hits)
             at == {i \in DOMAIN rs : rs[i].content = h.content}
         IN Merge(IF dict /\ at # {}
                  THEN [i \in DOMAIN rs |-> IF i \in at
                                            THEN [rs[i] EXCEPT !.score = @ + h.score]
                                            ELSE rs[i]]
                  ELSE Append(rs, h),
                  Tail(hits), dict)

RECURSIVE SortedByScore(_)
\* sorted(..., key=score, reverse=True): the best first, equals in their order
SortedByScore(rs) ==
    IF rs = <<>> THEN <<>>
    ELSE LET i == CHOOSE a \in DOMAIN rs :
                     /\ \A b \in DOMAIN rs : rs[b].score <= rs[a].score
                     /\ \A b \in 1..(a - 1) : rs[b].score < rs[a].score
         IN <<rs[i]>> \o SortedByScore(SubSeq(rs, 1, i - 1) \o SubSeq(rs, i + 1, Len(rs)))

\* the contents best first, each once, at most search_top_k of them
TopContents(rs) ==
    LET sorted == SortedByScore(rs)
        first == {i \in DOMAIN sorted :
                     \A j \in 1..(i - 1) : sorted[j].content # sorted[i].content}
        unique == SelectSeq([i \in DOMAIN sorted |->
                                IF i \in first THEN sorted[i].content ELSE ""],
                            LAMBDA c : c # "")
    IN SubSeq(unique, 1, Min(Len(unique), search_top_k))

\* the retriever with the lexical search made for every caller
hybrid_search_lexical_for_all(b, query, person_id, mem, conv, index) ==
    IF b = "v12" /\ Len(query) < 3
    THEN [value |-> <<>>, vector_called |-> FALSE, bm25_called |-> FALSE]
    ELSE LET core == b # "v12"
             vector == Merge(Merge(<<>>, Scaled(mem, 14), core),
                             IF core THEN Scaled(conv, 7) ELSE <<>>, core)
             positive == SelectSeq(index, LAMBDA h : h.score > 0)
             lexical == IF core /\ positive # <<>>
                        THEN [i \in DOMAIN positive |->
                                [positive[i] EXCEPT !.score = (60 * @) \div positive[1].score]]
                        ELSE Scaled(positive, 60)
         IN [value |-> TopContents(Merge(vector, lexical, core)),
             vector_called |-> TRUE, bm25_called |-> TRUE]

\* hybrid_search(query, person_id, top_k) / HybridSearch.search(query, person_id)
hybrid_search(b, query, person_id, mem, conv, index) ==
    IF b = "v12" /\ Len(query) < 3
    THEN [value |-> <<>>, vector_called |-> FALSE, bm25_called |-> FALSE]
    ELSE LET core == b # "v12"
             owner == person_id = Owner
             vector == Merge(Merge(<<>>, Scaled(mem, 14), core),
                             IF core THEN Scaled(conv, 7) ELSE <<>>, core)
             positive == IF owner THEN SelectSeq(index, LAMBDA h : h.score > 0) ELSE <<>>
             lexical == IF core /\ positive # <<>>
                        THEN [i \in DOMAIN positive |->
                                [positive[i] EXCEPT !.score = (60 * @) \div positive[1].score]]
                        ELSE Scaled(positive, 60)
         IN [value |-> TopContents(Merge(vector, lexical, core)),
             vector_called |-> TRUE,
             bm25_called |-> owner /\ (core \/ index # <<>>)]

VectorHits == [content : {"a", "b"}, score : {0, 5, 9}]

HitsUpTo(n) == UNION {[1..k -> VectorHits] : k \in 0..n}

\* what the BM25 index holds for the query: nothing, a memory the vector
\* search finds too, a memory only the index finds
LexicalIndexes ==
    {<<>>, <<[content |-> "a", score |-> 2]>>,
     <<[content |-> "s", score |-> 3], [content |-> "a", score |-> 1]>>}

InitSearch ==
    /\ InitBeside
    /\ build \in {"core", "v12"}
    /\ now = 0
    /\ sessions = NoSessions
    /\ nextSid = 1
    /\ ret = NoRet
    /\ ops = 0
    /\ arg \in [fn : {"hybrid_search"}, query : {"hi", "query"}, person_id : Callers,
               mem : HitsUpTo(MaxHits), conv : HitsUpTo(1), index : LexicalIndexes]
    /\ turn = NoTurn
    /\ openai_client = FALSE

HybridSearch ==
    /\ arg.fn = "hybrid_search"
    /\ ret = NoRet
    /\ ret' = [op |-> "hybrid_search"] @@
              hybrid_search(build, arg.query, arg.person_id, arg.mem, arg.conv, arg.index)
    /\ UNCHANGED <<build, now, sessions, nextSid, ops, arg, turn, openai_client, parked, fact_tasks, milvus, workspace>>

SpecSearch == InitSearch /\ [][HybridSearch]_vars

\* Workspace.get_context: the files of the workspace it joins
get_context ==
    {"SOUL.md", "IDENTITY.md", "OWNER.md", "MEMORY.md", "TOOLS.md",
     "memory/today.md", "memory/yesterday.md"}

\* WorkspaceLoader.load of animara_rag_proxy_v12.py: the files it joins, and
\* the fallback persona line
load(person_id) ==
    {"SOUL.md", "IDENTITY.md"} \cup
    (IF person_id = Owner
     THEN {"USER.md", "memory/today.md", "memory/yesterday.md"}
     ELSE {"FALLBACK"})

\* the user messages with a question mark or one of the interrogative words
QuestionMessages == {"how are you?"}

\* chat_completions: the workspace part of the system prompt and the
\* retrieval for it; god tells that the prompt is for the god-mode branch
Compose(b, t, god) ==
    LET p == t.person_id
        um == t.user_message
        r == hybrid_search(b, um, p, <<>>, <<>>, <<>>)
    IN IF b = "core" /\ god
       THEN [t EXCEPT !.workspace_ctx = IF p = Owner THEN get_context ELSE {}]
       ELSE IF um # "" /\ um \in QuestionMessages
       THEN [t EXCEPT !.workspace_ctx = IF p # Owner THEN {"FALLBACK"} ELSE get_context,
                      !.vector_searches = @ + (IF r.vector_called THEN 1 ELSE 0),
                      !.lexical_searches = @ + (IF r.bm25_called THEN 1 ELSE 0)]
       ELSE [t EXCEPT !.workspace_ctx = IF p # Owner THEN {"FALLBACK"} ELSE get_context]


(***************************************************************************)
(* The chat-completions turn of rag_proxy.py ("core") and of               *)
(* rag_proxy_v10_6.py.  The handler runs from one await to the next; turn  *)
(* is its frame.  llm_messages and openai_messages hold what the loops     *)
(* append to the conversation they were given.  backend_calls,             *)
(* handler_runs, responses, execs and raised_by record what happened.      *)
(***************************************************************************)
\* import openai succeeded
OPENAI_AVAILABLE == TRUE

\* check_godmode_command, on a text that is already lower-case and stripped
activate_patterns == {"/god", "/godmode", "godmode", "god mode", "god"}
deactivate_patterns == {"/local", "local"}

check_godmode_command(text) ==
    IF text \in activate_patterns THEN "activate"
    ELSE IF text \in deactivate_patterns THEN "deactivate"
    ELSE "None"

\* Session.needs_flush
needs_flush(s) == s.total_tokens > flush_threshold

\* the status of the HTTP response of a turn: a handler that returns its
\* dict is answered 200 by the framework, one that raises is answered 500
status_code(t) ==
    CASE t.pc = "done" -> 200
      [] t.pc = "raised" -> 500
      [] OTHER -> 0

\* the handler returns a response whose content is reply
Respond(t, reply) == [t EXCEPT !.pc = "done", !.reply = reply]

\* `if content: session.add_message("assistant", content)`
RecordReply(ss, p, content, tnow) ==
    IF content # <<>>
    THEN [ss EXCEPT ![p] = add_message(@, "assistant", Text(StrLen(content)), FALSE, tnow)]
    ELSE ss

\* `continue` in `for iteration in range(max_tool_iterations)`: the next
\* backend call, or the reply after the loop
NextIteration(t, pc, limit) ==
    IF t.iteration + 1 < max_tool_iterations
    THEN [t EXCEPT !.pc = pc, !.iteration = @ + 1]
    ELSE Respond(t, limit)

Executed(t, name, h, r) ==
    [t EXCEPT !.handler_runs = @ + (IF r.invoked THEN 1 ELSE 0),
              !.execs = Append(@, [name |-> name, handler |-> h.kind,
                                   invoked |-> r.invoked, raised |-> r.raised,
                                   value |-> r.value])]

\* local loop, after execute_tool: the result goes into the conversation and
\* into the session as it is
ToolResultInjected(t, ss, h, r, tnow) ==
    LET p == t.person_id
        t1 == Executed(t, t.call, h, r)
    IN IF r.raised
       THEN [turn |-> [t1 EXCEPT !.pc = "raised", !.raised_by = "execute_tool"],
             sessions |-> ss]
       ELSE [turn |-> NextIteration(
                        [t1 EXCEPT !.llm_messages = @ \o
                            <<[role |-> "assistant", content |-> t.content,
                               tool |-> "", result |-> NoText],
                              [role |-> "user", content |-> <<>>,
                               tool |-> t.call, result |-> r.value]>>],
                        "llm", <<"LIMIT">>),
             sessions |-> [ss EXCEPT ![p] = add_message(@, "tool", Text(r.value.len),
                                                         TRUE, tnow)]]

\* call_godmode_llm has returned content to chat_completions
GodResult(t, ss, content, tnow) ==
    [turn |-> Respond(t, content),
     sessions |-> RecordReply(ss, t.person_id, content, tnow)]

\* call_godmode_llm: `for tool_call in assistant_message.tool_calls`, up to the
\* next handler to await; then the messages are appended and the loop continues
RECURSIVE GodToolCalls(_, _, _, _)
GodToolCalls(b, t, ss, tnow) ==
    IF t.pending = <<>>
    THEN LET t1 == [t EXCEPT !.openai_messages = @ \o
                        <<[role |-> "assistant", content |-> t.content,
                           tool |-> "", result |-> NoText]>> \o t.tool_results,
                        !.tool_results = <<>>]
             t2 == NextIteration(t1, "god_llm", <<"GOD_LIMIT">>)
         IN IF t2.pc = "done" THEN GodResult(t1, ss, t2.reply, tnow)
            ELSE [turn |-> t2, sessions |-> ss]
    ELSE LET name == Head(t.pending)
         IN IF ~tools_manager
            THEN GodToolCalls(b, [t EXCEPT !.pending = Tail(@),
                                           !.tool_results = Append(@,
                                               [role |-> "tool", content |-> <<>>,
                                                tool |-> name,
                                                result |-> [kind |-> "no_manager", len |-> 34]])],
                              ss, tnow)
            ELSE IF Unhashable(name) \/ name \notin Tools
            THEN LET r == execute_tool(b, name, NoOutcome)
                     t1 == Executed(t, name, NoOutcome, r)
                 IN IF r.raised
                    THEN GodResult(t1, ss, <<"GOD_ERROR">>, tnow)
                    ELSE GodToolCalls(b, [t1 EXCEPT !.pending = Tail(@),
                                                    !.tool_results = Append(@,
                                                        [role |-> "tool", content |-> <<>>,
                                                         tool |-> name, result |-> r.value])],
                                      ss, tnow)
            ELSE [turn |-> [t EXCEPT !.pc = "god_tool", !.call = name], sessions |-> ss]

\* the activation without the test of the caller
may_activate_anyone(p) == TRUE

\* `if person_id != CONFIG["owner_person_id"]: return` the refusal
may_activate(p) == p = Owner

\* chat_completions from the god-mode command check to its first backend call
Dispatch(b, t, ss, client, tnow) ==
    LET p == t.person_id
        um == t.user_message
        cmd == check_godmode_command(um)
        t1 == IF um # "" THEN [t EXCEPT !.first = ss[p].appended + 1] ELSE t
        tg == Compose(b, t1, TRUE)
        tl == Compose(b, t1, FALSE)
        ingested == IF um # ""
                    THEN [ss EXCEPT ![p] = add_message(@, "user", Text(Len(um)), FALSE, tnow)]
                    ELSE ss
    IN IF cmd = "activate"
       THEN IF ~may_activate(p)
            THEN [turn |-> Respond([t EXCEPT !.path = "command"], <<"OWNER_ONLY">>),
                  sessions |-> ss]
            ELSE [turn |-> Respond([t EXCEPT !.path = "command"], <<"ACTIVATED">>),
                  sessions |-> [ss EXCEPT ![p].god_mode = TRUE]]
       ELSE IF cmd = "deactivate"
       THEN [turn |-> Respond([t EXCEPT !.path = "command"], <<"DEACTIVATED">>),
             sessions |-> [ss EXCEPT ![p].god_mode = FALSE]]
       ELSE IF ss[p].god_mode
       THEN IF b = "core"
            THEN [turn |-> [tg EXCEPT !.pc = "codex", !.path = "codex"], sessions |-> ingested]
            ELSE IF ~OPENAI_AVAILABLE
            THEN GodResult([tg EXCEPT !.path = "god"], ingested, <<"NO_SDK">>, tnow)
            ELSE IF ~client
            THEN GodResult([tg EXCEPT !.path = "god"], ingested, <<"NO_CLIENT">>, tnow)
            ELSE [turn |-> [tg EXCEPT !.pc = "god_llm", !.path = "god"], sessions |-> ingested]
       ELSE [turn |-> [tl EXCEPT !.pc = "llm", !.path = "local"], sessions |-> ingested]

(***************************************************************************)
(* extract_and_save_facts, run in a thread beside the handler.  A task is  *)
(* at "check" (before `content in session.facts_extracted`), at "insert"   *)
(* (before milvus.insert), at "append" (before facts_extracted.append) or  *)
(* "done".  rag_proxy.py inserts and then appends; rag_proxy_v10_6.py      *)
(* appends and then inserts.                                               *)
(***************************************************************************)
\* the contents the patterns of a revision find in a user message: "I live in
\* Moscow" in Russian matches one pattern of the core revisions and the two
\* patterns "ya zhivu v" and "zhivu v" of FactExtractor.PATTERNS
extract(b, text) ==
    IF text = "ya zhivu v Moskve"
    THEN IF b \in {"core", "v10_6"} THEN <<"lives in Moskve">>
         ELSE <<"lives in Moskve", "lives in Moskve">>
    ELSE <<>>

\* the handler stores the user message (and starts the task)
Ingests(t) == t.user_message # "" /\ check_godmode_command(t.user_message) = "None"

\* asyncio.create_task(asyncio.to_thread(extract_and_save_facts, user_message,
\* person_id, session)); a message no pattern matches gives a task without effect
create_task(tasks, b, t, s) ==
    IF Ingests(t) /\ extract(b, t.user_message) # <<>>
    THEN Append(tasks, [person_id |-> t.person_id, session_id |-> s.session_id,
                        content |-> extract(b, t.user_message)[1], pc |-> "check"])
    ELSE tasks

\* the row of the "memories" collection
MemoryRow(person_id, session_id, memory_type, content) ==
    [person_id |-> person_id, source_session_id |-> session_id,
     memory_type |-> memory_type, content |-> content]

\* the task still holds the Session object the manager holds
Holds(task) == sessions[task.person_id].session_id = task.session_id

\* `if content in session.facts_extracted: continue`
FactCheck(i) ==
    /\ fact_tasks[i].pc = "check"
    /\ LET task == fact_tasks[i]
           known == Holds(task) /\ \E k \in DOMAIN sessions[task.person_id].facts_extracted :
                                      sessions[task.person_id].facts_extracted[k] = task.content
       IN fact_tasks' = [fact_tasks EXCEPT ![i].pc =
                            IF known THEN "done"
                            ELSE IF build = "core" THEN "insert" ELSE "append"]
    /\ UNCHANGED <<build, now, sessions, nextSid, ret, ops, arg, turn, openai_client,
                   parked, milvus, workspace>>

\* embedder.encode and milvus.insert; an exception ends the task
FactInsert(i, ok) ==
    /\ fact_tasks[i].pc = "insert"
    /\ LET task == fact_tasks[i]
       IN /\ milvus' = IF ok
                       THEN Append(milvus, MemoryRow(task.person_id, task.session_id,
                                                     "fact", task.content))
                       ELSE milvus
          /\ fact_tasks' = [fact_tasks EXCEPT ![i].pc =
                               IF ok /\ build = "core" THEN "append" ELSE "done"]
    /\ UNCHANGED <<build, now, sessions, nextSid, ret, ops, arg, turn, openai_client,
                   parked, workspace>>

\* session.facts_extracted.append(content)
FactAppend(i) ==
    /\ fact_tasks[i].pc = "append"
    /\ LET task == fact_tasks[i]
       IN /\ sessions' = IF Holds(task)
                         THEN [sessions EXCEPT ![task.person_id].facts_extracted =
                                   Append(@, task.content)]
                         ELSE sessions
          /\ fact_tasks' = [fact_tasks EXCEPT ![i].pc =
                               IF build = "core" THEN "done" ELSE "insert"]
    /\ UNCHANGED <<build, now, nextSid, ret, ops, arg, turn, openai_client,
                   parked, milvus, workspace>>

(***************************************************************************)
(* The steps of a turn.                                                    *)
(***************************************************************************)
\* Session.get_full_context: the messages whose text goes into the flush
\* prompt, by their identity
get_full_context(s) == {s.messages[i].id : i \in 1..Len(s.messages)}

\* POST /v1/chat/completions, up to the handler's first await
ChatRequest(req) ==
    /\ turn.pc = "idle"
    /\ LET p == req.person_id
           ss1 == IF build = "core"
                  THEN get_or_create(sessions, p, nextSid, now)
                  ELSE get_or_create_v10_6(sessions, p, nextSid, now)
           t0 == [NoTurn EXCEPT !.person_id = p, !.enable_tools = req.enable_tools,
                                !.user_message = req.user_message]
           d == Dispatch(build, t0, ss1, openai_client, now)
       IN /\ nextSid' = IF Installed(sessions, ss1, p) THEN nextSid + 1 ELSE nextSid
          /\ IF build = "core" /\ needs_flush(ss1[p])
             THEN /\ turn' = [t0 EXCEPT !.pc = "flush",
                                         !.flush_context = get_full_context(ss1[p])]
                  /\ sessions' = ss1
                  /\ fact_tasks' = fact_tasks
             ELSE /\ turn' = d.turn
                  /\ sessions' = d.sessions
                  /\ fact_tasks' = create_task(fact_tasks, build, t0, ss1[p])
    /\ UNCHANGED <<build, now, ret, ops, arg, openai_client, parked, milvus, workspace>>

\* memory_flush with a handler of exceptions that compacts as well
memory_flush_compacts_anyway(s, ok) == compact(s)

\* SessionManager.memory_flush after its request to the local backend: with
\* a summary it writes the facts and compacts the session; any exception in
\* the try block (the request, the body, the workspace) is caught before
\* compact is reached
memory_flush(s, ok) == IF ok THEN compact(s) ELSE s

\* rag_proxy.py: memory_flush has posted its prompt to the local backend and
\* has its summary or has failed; the handler goes on.  flush_result and
\* after_flush record how the flush ended and the session it left.
MemoryFlush(ok) ==
    /\ turn.pc = "flush"
    /\ LET p == turn.person_id
           ss1 == [sessions EXCEPT ![p] = memory_flush(@, ok)]
           d == Dispatch(build, [turn EXCEPT !.flush_calls = @ + 1,
                                             !.flush_result = IF ok THEN "done" ELSE "failed",
                                             !.after_flush = ss1[p]],
                         ss1, openai_client, now)
       IN /\ turn' = d.turn
          /\ sessions' = d.sessions
          /\ fact_tasks' = create_task(fact_tasks, build, turn, ss1[p])
    /\ UNCHANGED <<build, now, nextSid, ret, ops, arg, openai_client, parked, milvus, workspace>>

\* local loop: the backend answered with content out
LLMRespond(out) ==
    /\ turn.pc = "llm"
    /\ LET p == turn.person_id
           tool_call == parse_tool_call(build, out)
           t0 == [turn EXCEPT !.backend_calls = @ + 1, !.content = out,
                              !.responses = Append(@, [content |-> out,
                                                       tool_call |-> Truthy(tool_call),
                                                       failed |-> FALSE])]
       IN IF Truthy(tool_call) /\ turn.enable_tools /\ tools_manager
          THEN LET tool_name == tool_call.name
                   counted == [sessions EXCEPT ![p].tool_calls = @ + 1]
                   t1 == [t0 EXCEPT !.call = tool_name]
                   d == ToolResultInjected(t1, counted, NoOutcome,
                                           execute_tool(build, tool_name, NoOutcome), now)
               IN IF Unhashable(tool_name) \/ tool_name \notin Tools
                  THEN turn' = d.turn /\ sessions' = d.sessions
                  ELSE turn' = [t1 EXCEPT !.pc = "tool"] /\ sessions' = counted
          ELSE LET content == Strip(RemoveToolBlocks(out))
               IN /\ sessions' = RecordReply(sessions, p, content, now)
                  /\ turn' = Respond(t0, content)
    /\ UNCHANGED <<build, now, nextSid, ret, ops, arg, openai_client, parked, fact_tasks, milvus, workspace>>

\* local loop: client.post or resp.json() raised, or the answer has no
\* "choices"; nothing in the handler catches it
LLMFails ==
    /\ turn.pc = "llm"
    /\ turn' = [turn EXCEPT !.pc = "raised", !.raised_by = "backend",
                            !.backend_calls = @ + 1,
                            !.responses = Append(@, [content |-> <<>>,
                                                     tool_call |-> FALSE,
                                                     failed |-> TRUE])]
    /\ UNCHANGED <<build, now, sessions, nextSid, ret, ops, arg, openai_client, parked, fact_tasks, milvus, workspace>>

\* local loop: the awaited handler behaved as h
ToolReturns(h) ==
    /\ turn.pc = "tool"
    /\ LET d == ToolResultInjected(turn, sessions, h,
                                   execute_tool(build, turn.call, h), now)
       IN turn' = d.turn /\ sessions' = d.sessions
    /\ UNCHANGED <<build, now, nextSid, ret, ops, arg, openai_client, parked, fact_tasks, milvus, workspace>>

\* god-mode loop: OpenAI answered with resp
GodRespond(resp) ==
    /\ turn.pc = "god_llm"
    /\ LET t0 == [turn EXCEPT !.backend_calls = @ + 1, !.content = resp.content,
                              !.responses = Append(@, [content |-> resp.content,
                                                       tool_call |-> resp.tool_calls # <<>>,
                                                       failed |-> FALSE])]
           d == IF resp.tool_calls # <<>>
                THEN GodToolCalls(build, [t0 EXCEPT !.pending = resp.tool_calls,
                                                    !.tool_results = <<>>],
                                  sessions, now)
                ELSE GodResult(t0, sessions, <<"Z">> \o resp.content, now)
       IN turn' = d.turn /\ sessions' = d.sessions
    /\ UNCHANGED <<build, now, nextSid, ret, ops, arg, openai_client, parked, fact_tasks, milvus, workspace>>

\* god-mode loop: the OpenAI call raised; call_godmode_llm answers with one of
\* its canned error replies
GodFails(reply) ==
    /\ turn.pc = "god_llm"
    /\ LET t0 == [turn EXCEPT !.backend_calls = @ + 1,
                              !.responses = Append(@, [content |-> <<>>,
                                                       tool_call |-> FALSE,
                                                       failed |-> TRUE])]
           d == GodResult(t0, sessions, <<reply>>, now)
       IN turn' = d.turn /\ sessions' = d.sessions
    /\ UNCHANGED <<build, now, nextSid, ret, ops, arg, openai_client, parked, fact_tasks, milvus, workspace>>

\* god-mode loop: the awaited handler behaved as h
GodToolReturns(h) ==
    /\ turn.pc = "god_tool"
    /\ LET r == execute_tool(build, turn.call, h)
           t1 == Executed(turn, turn.call, h, r)
           d == IF r.raised
                THEN GodResult(t1, sessions, <<"GOD_ERROR">>, now)
                ELSE GodToolCalls(build,
                                  [t1 EXCEPT !.pending = Tail(@),
                                             !.tool_results = Append(@,
                                                 [role |-> "tool", content |-> <<>>,
                                                  tool |-> turn.call, result |-> r.value])],
                                  sessions, now)
       IN turn' = d.turn /\ sessions' = d.sessions
    /\ UNCHANGED <<build, now, nextSid, ret, ops, arg, openai_client, parked, fact_tasks, milvus, workspace>>

\* rag_proxy.py, god mode: call_chatgpt_codex returned content
CodexReturns(content) ==
    /\ turn.pc = "codex"
    /\ sessions' = RecordReply(sessions, turn.person_id, content, now)
    /\ turn' = Respond([turn EXCEPT !.backend_calls = @ + 1], content)
    /\ UNCHANGED <<build, now, nextSid, ret, ops, arg, openai_client, parked, fact_tasks, milvus, workspace>>

(***************************************************************************)
(* The turns explored: one request per behaviour, against a manager that   *)
(* holds no session, the owner's session in god mode, or (rag_proxy.py)    *)
(* the owner's session grown past flush_threshold.                         *)
(***************************************************************************)
TurnRequests ==
    [person_id : Callers, enable_tools : {TRUE},
     user_message : {"hello", "how are you?", "/god", "/local"}]
    \cup [person_id : {Owner}, enable_tools : {FALSE}, user_message : {"hello", ""}]

LocalOutputs ==
    {<<>>, <<"x">>, <<"T", "J", "/T">>, <<"x", "_", "T", "U", "/T">>,
     <<"T", "L", "/T">>, <<"T", "B", "/T">>, <<"T", "E", "/T">>, <<"F">>}

GodOutputs ==
    {[content |-> <<>>, tool_calls |-> <<>>],
     [content |-> <<"x">>, tool_calls |-> <<>>],
     [content |-> <<>>, tool_calls |-> <<"web_search">>],
     [content |-> <<"x">>, tool_calls |-> <<"nope", "system_check">>]}

GodErrors == {"GOD_AUTH", "GOD_RATE", "GOD_ERROR"}

CodexOutputs == {<<"Z", "x">>, <<"CODEX_ERROR">>, <<"CODEX_TIMEOUT">>}

\* the owner's session after the turn that switched god mode on
GodSession == [NewSession(1, 0) EXCEPT !.god_mode = TRUE]

\* the owner's session after ten turns of 4500 characters a message
HeavySession ==
    [NewSession(1, 0) EXCEPT
        !.messages = [i \in 1..session_max_messages |->
                        [role |-> IF i % 2 = 1 THEN "user" ELSE "assistant",
                         content |-> Text(4500), tokens |-> count_tokens(Text(4500)),
                         is_tool |-> FALSE, id |-> i]],
        !.total_tokens = session_max_messages * count_tokens(Text(4500)),
        !.appended = session_max_messages]

InitTurn ==
    /\ InitBeside
    /\ now = 0
    /\ ret = NoRet
    /\ ops = 0
    /\ arg = NoArg
    /\ turn = NoTurn
    /\ \/ /\ build \in CoreBuilds
          /\ sessions \in {NoSessions, [NoSessions EXCEPT ![Owner] = GodSession]}
          /\ openai_client = (build = "v10_6")
       \/ /\ build = "v10_6"
          /\ sessions = [NoSessions EXCEPT ![Owner] = GodSession]
          /\ openai_client = FALSE
       \/ /\ build = "core"
          /\ sessions = [NoSessions EXCEPT ![Owner] = HeavySession]
          /\ openai_client = FALSE
    /\ nextSid = IF HasSession(sessions, Owner) THEN 2 ELSE 1

NextTurn ==
    \/ \E req \in TurnRequests : ChatRequest(req)
    \/ \E ok \in BOOLEAN : MemoryFlush(ok)
    \/ \E out \in LocalOutputs : LLMRespond(out)
    \/ LLMFails
    \/ \E h \in ToolOutcomes(turn.call) : ToolReturns(h)
    \/ \E resp \in GodOutputs : GodRespond(resp)
    \/ \E reply \in GodErrors : GodFails(reply)
    \/ \E h \in ToolOutcomes(turn.call) : GodToolReturns(h)
    \/ \E content \in CodexOutputs : CodexReturns(content)

SpecTurn == InitTurn /\ [][NextTurn]_vars

(***************************************************************************)
(* Turns of rag_proxy.py against a session that is over flush_threshold:   *)
(* the owner's session holds n messages of 30000 estimated tokens each, or *)
(* is HeavySession; the requests are served one after the other.           *)
(***************************************************************************)
LoadedSession(n, god, calls) ==
    [NewSession(1, 0) EXCEPT
        !.messages = [i \in 1..n |->
                        [role |-> IF i % 2 = 1 THEN "user" ELSE "assistant",
                         content |-> Text(90000), tokens |-> count_tokens(Text(90000)),
                         is_tool |-> FALSE, id |-> i]],
        !.total_tokens = n * count_tokens(Text(90000)),
        !.appended = n,
        !.god_mode = god,
        !.tool_calls = calls]

FlushRequests ==
    [person_id : {Owner}, enable_tools : {TRUE}, user_message : {"hello", "/local", ""}]

InitFlush ==
    /\ InitBeside
    /\ build = "core"
    /\ now = 0
    /\ ret = NoRet
    /\ ops = 0
    /\ arg = NoArg
    /\ turn = NoTurn
    /\ \E n \in 0..MaxLoaded, god \in BOOLEAN, calls \in {0, 2} :
          sessions \in {[NoSessions EXCEPT ![Owner] = LoadedSession(n, god, calls)],
                        [NoSessions EXCEPT ![Owner] = HeavySession]}
    /\ openai_client = FALSE
    /\ nextSid = 2

\* the handler has returned (or raised) and the server takes the next request
TurnOver ==
    /\ turn.pc \in {"done", "raised"}
    /\ ops < MaxTurns - 1
    /\ ops' = ops + 1
    /\ turn' = NoTurn
    /\ UNCHANGED <<build, now, sessions, nextSid, ret, arg, openai_client, parked, fact_tasks, milvus, workspace>>

NextFlush ==
    \/ \E req \in FlushRequests : ChatRequest(req)
    \/ \E ok \in BOOLEAN : MemoryFlush(ok)
    \/ \E out \in {<<>>, <<"x">>} : LLMRespond(out)
    \/ LLMFails
    \/ \E content \in {<<"Z", "x">>, <<"CODEX_ERROR">>} : CodexReturns(content)
    \/ TurnOver

SpecFlush == InitFlush /\ [][NextFlush]_vars

(***************************************************************************)
(* Turns of the core revisions whose user message states a fact, served    *)
(* one after the other while the fact tasks they started run in threads.   *)
(***************************************************************************)
FactRequests ==
    [person_id : Callers, enable_tools : {TRUE}, user_message : {"ya zhivu v Moskve"}]

InitFacts ==
    /\ InitBeside
    /\ build \in CoreBuilds
    /\ now = 0
    /\ ret = NoRet
    /\ ops = 0
    /\ arg = NoArg
    /\ turn = NoTurn
    /\ sessions = NoSessions
    /\ openai_client = FALSE
    /\ nextSid = 1

NextFacts ==
    \/ \E req \in FactRequests : ChatRequest(req)
    \/ LLMRespond(<<"x">>)
    \/ TurnOver
    \/ \E i \in DOMAIN fact_tasks : FactCheck(i)
    \/ \E i \in DOMAIN fact_tasks, ok \in BOOLEAN : FactInsert(i, ok)
    \/ \E i \in DOMAIN fact_tasks : FactAppend(i)

SpecFacts == InitFacts /\ [][NextFacts]_vars

(***************************************************************************)
(* Two requests in flight.  chat_completions is a coroutine: at each await *)
(* (the flush, the backend, a tool) the event loop may run the handler of  *)
(* another request.  turn is the request whose step is taken, parked the   *)
(* other one, suspended at its await.                                      *)
(***************************************************************************)
OverlapRequests ==
    [person_id : {Owner}, enable_tools : {TRUE}, user_message : {"hello", "how are you?"}]

InitOverlap ==
    /\ InitBeside
    /\ build \in CoreBuilds
    /\ now = 0
    /\ ret = NoRet
    /\ ops = 0
    /\ arg = NoArg
    /\ turn = NoTurn
    /\ sessions = NoSessions
    /\ openai_client = FALSE
    /\ nextSid = 1

\* the event loop resumes the other request
Switch ==
    /\ turn # parked
    /\ turn' = parked
    /\ parked' = turn
    /\ UNCHANGED <<build, now, sessions, nextSid, ret, ops, arg, openai_client,
                   fact_tasks, milvus, workspace>>

NextOverlap ==
    \/ \E req \in OverlapRequests : ChatRequest(req)
    \/ LLMRespond(<<"x">>)
    \/ turn.iteration < MaxRounds /\ LLMRespond(<<"T", "J", "/T">>)
    \/ \E h \in ToolOutcomes(turn.call) : ToolReturns(h)
    \/ Switch

SpecOverlap == InitOverlap /\ [][NextOverlap]_vars

(***************************************************************************)
(* animara_rag_proxy_v12.py with the routing of animara_v12_2_upgrade.py.  *)
(* "K" and "/K" are <think> and </think>.                                  *)
(***************************************************************************)
\* call_llm_direct: re.sub(r'<think>.*?</think>', '', content).strip()
strip_think(content) == Strip(RemoveBlocks(content, "K", "/K", FALSE))

\* clean_think_blocks
clean_think_blocks(text) ==
    LET n == Len(text)
        ks == {i \in 1..n : text[i] = "K"}
    IN IF ks = {} THEN Strip(text)
       ELSE LET i == CHOOSE a \in ks : \A b \in ks : a <= b
                closes == {k \in (i + 1)..n : text[k] = "/K"}
                unclosed == SubSeq(text, i + 1, n)
                c1 == Strip(RemoveBlocks(text, "K", "/K", TRUE))
                k1 == {j \in 1..Len(c1) : c1[j] = "K"}
                clean == IF k1 = {} THEN c1
                         ELSE Strip(SubSeq(c1, 1, (CHOOSE a \in k1 : \A b \in k1 : a <= b) - 1))
            IN IF clean # <<>> THEN clean
               ELSE IF closes # {}
               THEN Strip(SubSeq(text, i + 1, (CHOOSE a \in closes : \A b \in closes : a <= b) - 1))
               ELSE Strip(SelectSeq(unclosed, LAMBDA a : a # "/K"))

\* what a POST to the backend comes to
Http(kind, content) == [kind |-> kind, content |-> content]

\* call_llm_direct: the text, or None
call_llm_direct(o) ==
    IF o.kind = "200" THEN [none |-> FALSE, text |-> strip_think(o.content)]
    ELSE [none |-> TRUE, text |-> <<>>]

\* QwenAgentOrchestrator._fallback_llm
fallback_llm(f) ==
    IF f.kind = "200"
    THEN IF clean_think_blocks(f.content) # <<>>
         THEN clean_think_blocks(f.content) ELSE Strip(f.content)
    ELSE <<"LLM_ERROR">>

\* QwenAgentOrchestrator.run: agent tells whether self.agent was built, a is
\* what the agent does, f what the fallback POST comes to
run(agent, a, f) ==
    IF agent /\ a.kind = "text" /\ clean_think_blocks(a.content) # <<>>
    THEN clean_think_blocks(a.content)
    ELSE fallback_llm(f)

\* the servers of mcp_config.json
MCPServers ==
    {"yougile", "brightdata", "filesystem", "memory", "time", "exec",
     "google_calendar", "gmail", "milvus"}

\* filter_mcp_config without its second fallback: an empty selection is returned
filter_mcp_config_unguarded(full_config, needed_tools) ==
    IF needed_tools = {} THEN full_config ELSE full_config \cap needed_tools

\* filter_mcp_config, a config being the set of its servers
filter_mcp_config(full_config, needed_tools) ==
    IF needed_tools = {} THEN full_config
    ELSE IF full_config \cap needed_tools = {} THEN full_config
    ELSE full_config \cap needed_tools

\* RouteResult; the confidence is a fraction <<numerator, denominator>>
RouteResult(route, needed_tools, confidence) ==
    [route |-> route, needed_tools |-> needed_tools, confidence |-> confidence]

\* classify with the two pattern tables tried in the other order
classify_direct_first(u) ==
    IF u.toggle THEN RouteResult("direct", {}, <<1, 1>>)
    ELSE IF u.slash THEN RouteResult("agent", {}, <<1, 1>>)
    ELSE IF u.direct THEN RouteResult("direct", {}, <<17, 20>>)
    ELSE IF u.matched # {} THEN RouteResult("agent", u.matched, <<9, 10>>)
    ELSE IF 2 * Min(u.overlap, 3) > 3 THEN RouteResult("agent", u.guess, <<Min(u.overlap, 3), 3>>)
    ELSE IF u.words <= 8 THEN RouteResult("direct", {}, <<3, 5>>)
    ELSE RouteResult("agent", {}, <<1, 2>>)

\* SmartRouter.classify.  A user input is given by what the router's patterns
\* find in it: toggle (the god-mode expression matches), slash (it starts with
\* "/"), matched (the tools of the TOOL_PATTERNS that match), direct (a
\* DIRECT_PATTERN matches), overlap (words among the tool keywords), guess
\* (_guess_tools) and words (len(text.split())).
classify(u) ==
    IF u.toggle THEN RouteResult("direct", {}, <<1, 1>>)
    ELSE IF u.slash THEN RouteResult("agent", {}, <<1, 1>>)
    ELSE IF u.matched # {} THEN RouteResult("agent", u.matched, <<9, 10>>)
    ELSE IF u.direct THEN RouteResult("direct", {}, <<17, 20>>)
    ELSE IF 2 * Min(u.overlap, 3) > 3 THEN RouteResult("agent", u.guess, <<Min(u.overlap, 3), 3>>)
    ELSE IF u.words <= 8 THEN RouteResult("direct", {}, <<3, 5>>)
    ELSE RouteResult("agent", {}, <<1, 2>>)

(***************************************************************************)
(* truncate_context_if_needed of animara_rag_proxy_v12.py.  Texts are      *)
(* given by their lengths.  A system prompt is                             *)
(*   head  parts[0], what stands before the heading of the RAG block,      *)
(*   mk    the heading (rag_marker characters, 0 when there is none),      *)
(*   rag   rag_content, up to the next "## " section,                      *)
(*   note  what the function writes into the block in place of what it cut,*)
(*   rest  the sections after the block,                                   *)
(*   tail  what the function appends after cutting the whole prompt.       *)
(* A message is [id, len], id telling which message of the input it is.    *)
(***************************************************************************)
SystemPrompt(head, mk, rag, rest) ==
    [head |-> head, mk |-> mk, rag |-> rag, note |-> 0, rest |-> rest, tail |-> 0]

PromptLen(sp) == sp.head + sp.mk + sp.rag + sp.note + sp.rest + sp.tail

\* estimate_tokens of a text of n characters
estimate_tokens(n) == IF n = 0 THEN 0 ELSE Max(1, n \div 3)

RECURSIVE estimate_messages_tokens(_)
estimate_messages_tokens(messages) ==
    IF messages = <<>> THEN 0
    ELSE estimate_tokens(Head(messages).len) + 4 + estimate_messages_tokens(Tail(messages))

\* step 1 as it would be without its return: the trimmed block does not end
\* the function and the overflow stays
TrimRagAndGoOn(sp, overflow) ==
    IF sp.mk = rag_marker
    THEN IF estimate_tokens(sp.rag) > overflow
         THEN [system_prompt |-> [sp EXCEPT
                   !.rag = Min(@, Max(rag_floor, (estimate_tokens(sp.rag) - overflow) * 3)),
                   !.note = 15],
               overflow |-> overflow, returned |-> FALSE]
         ELSE [system_prompt |-> [sp EXCEPT !.rag = 0, !.note = 11],
               overflow |-> overflow - estimate_tokens(sp.rag), returned |-> FALSE]
    ELSE [system_prompt |-> sp, overflow |-> overflow, returned |-> FALSE]

\* step 1: trim the RAG block, and return if that block held more than the overflow
TrimRag(sp, overflow) ==
    IF sp.mk = rag_marker
    THEN IF estimate_tokens(sp.rag) > overflow
         THEN [system_prompt |-> [sp EXCEPT
                   !.rag = Min(@, Max(rag_floor, (estimate_tokens(sp.rag) - overflow) * 3)),
                   !.note = 15],
               overflow |-> overflow, returned |-> TRUE]
         ELSE [system_prompt |-> [sp EXCEPT !.rag = 0, !.note = 11],
               overflow |-> overflow - estimate_tokens(sp.rag), returned |-> FALSE]
    ELSE [system_prompt |-> sp, overflow |-> overflow, returned |-> FALSE]

RECURSIVE DropOldest(_, _)
\* step 2: while overflow > 0 and len(messages) > 2: messages.pop(1)
DropOldest(messages, overflow) ==
    IF overflow > 0 /\ Len(messages) > 2
    THEN DropOldest(<<messages[1]>> \o SubSeq(messages, 3, Len(messages)),
                    overflow - estimate_tokens(messages[2].len))
    ELSE [messages |-> messages, overflow |-> overflow]

\* step 3: system_prompt[:target_len] + the 14 characters of the cut mark
CutPrompt(sp, target_len) ==
    LET head == Min(sp.head, target_len)
        mk == Min(sp.mk, target_len - head)
        rag == Min(sp.rag, target_len - head - mk)
        note == Min(sp.note, target_len - head - mk - rag)
        rest == Min(sp.rest, target_len - head - mk - rag - note)
    IN [head |-> head, mk |-> mk, rag |-> rag, note |-> note, rest |-> rest, tail |-> 14]

\* truncate_context_if_needed; target_len is that of step 3, 0 when step 3
\* was not taken
truncate_context_if_needed(system_prompt, messages, cw, mrt) ==
    LET total == estimate_tokens(PromptLen(system_prompt)) + estimate_messages_tokens(messages)
        budget == cw - mrt
        s1 == TrimRag(system_prompt, total - budget)
        s2 == DropOldest(messages, s1.overflow)
        target_len == Max(prompt_floor, PromptLen(s1.system_prompt) - s2.overflow * 3)
    IN IF total <= budget
       THEN [system_prompt |-> system_prompt, messages |-> messages, target_len |-> 0]
       ELSE IF s1.returned
       THEN [system_prompt |-> s1.system_prompt, messages |-> messages, target_len |-> 0]
       ELSE IF s2.overflow > 0
       THEN [system_prompt |-> CutPrompt(s1.system_prompt, target_len),
             messages |-> s2.messages, target_len |-> target_len]
       ELSE [system_prompt |-> s1.system_prompt, messages |-> s2.messages, target_len |-> 0]

\* system prompts: short or longer than the window, without a RAG block or
\* with a small or a large one, followed by further sections or not
SystemPrompts ==
    {SystemPrompt(h, 0, 0, 0) : h \in {600, 97500}}
    \cup {SystemPrompt(h, rag_marker, r, x) : h \in {600, 97500}, r \in {90, 3000}, x \in {0, 300}}

\* histories of short and of very long messages
Histories ==
    UNION {{[i \in 1..k |-> [id |-> i, len |-> f[i]]] : f \in [1..k -> {30, 92100, 95352}]} :
           k \in 0..MaxHistory}

InitContext ==
    /\ InitBeside
    /\ build = "v12"
    /\ now = 0
    /\ sessions = NoSessions
    /\ nextSid = 1
    /\ ret = NoRet
    /\ ops = 0
    /\ arg \in [fn : {"truncate_context_if_needed"}, system_prompt : SystemPrompts,
               history : Histories, with_system : BOOLEAN]
    /\ turn = NoTurn
    /\ openai_client = FALSE

\* the messages of the call: the history, after the system message when the
\* caller is AnimaraProcessor.process
CallMessages ==
    (IF arg.with_system THEN <<[id |-> 0, len |-> PromptLen(arg.system_prompt)]>> ELSE <<>>)
    \o arg.history

TruncateContext ==
    /\ arg.fn = "truncate_context_if_needed"
    /\ ret = NoRet
    /\ ret' = [op |-> "truncate_context_if_needed"] @@
              truncate_context_if_needed(arg.system_prompt, CallMessages,
                                         context_window, min_response_tokens)
    /\ UNCHANGED <<build, now, sessions, nextSid, ops, arg, turn, openai_client, parked, fact_tasks, milvus, workspace>>

SpecContext == InitContext /\ [][TruncateContext]_vars

(***************************************************************************)
(* calculate_dynamic_max_tokens: the max_tokens of the next LLM call.      *)
(* animara_rag_proxy_v12.py estimates the input with                       *)
(* estimate_messages_tokens, animara_v12_2_upgrade.py with half the number *)
(* of characters of the system prompt and the messages.                    *)
(***************************************************************************)
RECURSIVE TotalChars(_)
\* total_chars += len(content) for every message
TotalChars(messages) ==
    IF messages = <<>> THEN 0 ELSE Head(messages).len + TotalChars(Tail(messages))

\* the estimate of the input: input_tokens / est_input_tokens
InputEstimate(b, prompt_len, messages) ==
    IF b = "v12" THEN estimate_messages_tokens(messages)
    ELSE (prompt_len + TotalChars(messages)) \div 2

\* the cap on the response: desired_max of v12, the literal 4096 of v12.2
ResponseCap(b) == IF b = "v12" THEN desired_max ELSE response_cap

\* available as it would be without the reserve
available_tokens_unreserved(b, prompt_len, messages) ==
    context_window - InputEstimate(b, prompt_len, messages)

\* available = context_window - input_tokens - reserve
available_tokens(b, prompt_len, messages) ==
    context_window - InputEstimate(b, prompt_len, messages) - reserve

\* the function without its floor
calculate_dynamic_max_tokens_unfloored(b, prompt_len, messages) ==
    Min(ResponseCap(b), context_window - InputEstimate(b, prompt_len, messages) - reserve)

\* v12: max(256, min(desired_max, available));
\* v12.2: min(max(available, min_tokens), 4096)
calculate_dynamic_max_tokens(b, prompt_len, messages) ==
    LET available == available_tokens(b, prompt_len, messages)
    IN IF b = "v12"
       THEN Max(min_tokens, Min(desired_max, available))
       ELSE Min(Max(available, min_tokens), response_cap)

\* message lengths that put the estimate below, at and between the two
\* thresholds of each revision, and past the window
BudgetLengths(b) ==
    IF b = "v12" THEN {30, 90612, 93000, 95988}
    ELSE {30, 56320, 60000, 64000}

BudgetHistories(b) ==
    UNION {{[i \in 1..k |-> [id |-> i, len |-> f[i]]] : f \in [1..k -> BudgetLengths(b)]} :
           k \in 0..MaxHistory}

InitBudget ==
    /\ InitBeside
    /\ build \in {"v12", "v12.2"}
    /\ now = 0
    /\ sessions = NoSessions
    /\ nextSid = 1
    /\ ret = NoRet
    /\ ops = 0
    /\ arg \in [fn : {"calculate_dynamic_max_tokens"}, prompt_len : {0, 12},
               messages : BudgetHistories(build)]
    /\ turn = NoTurn
    /\ openai_client = FALSE

CalculateDynamicMaxTokens ==
    /\ arg.fn = "calculate_dynamic_max_tokens"
    /\ ret = NoRet
    /\ ret' = [op |-> "calculate_dynamic_max_tokens",
               value |-> calculate_dynamic_max_tokens(build, arg.prompt_len, arg.messages)]
    /\ UNCHANGED <<build, now, sessions, nextSid, ops, arg, turn, openai_client, parked, fact_tasks, milvus, workspace>>

SpecBudget == InitBudget /\ [][CalculateDynamicMaxTokens]_vars

(***************************************************************************)
(* The MCP servers behind the agent.                                       *)
(* QwenAgentOrchestrator._init_with_graceful_degradation builds one        *)
(* Assistant over the whole configuration and, when that raises, one test  *)
(* Assistant per server and then the agent over the servers that passed.   *)
(* init_mcp_with_degradation of animara_v12_2_upgrade.py probes the health *)
(* URL of each server and builds no agent.  What an Assistant constructor  *)
(* or a probe does is given by the environment: combined_ok, broken (the   *)
(* servers whose own probe fails), final_ok, stdio (servers without URL).  *)
(***************************************************************************)
ServerOrder ==
    <<"yougile", "brightdata", "filesystem", "memory", "time", "exec",
      "google_calendar", "gmail", "milvus">>

Range(s) == {s[i] : i \in DOMAIN s}

RECURSIVE ProbeEach(_, _, _)
\* for name, cfg in servers.items(): healthy_servers.append / failed_servers.append
ProbeEach(names, broken, acc) ==
    IF names = <<>> THEN acc
    ELSE ProbeEach(Tail(names), broken,
                   IF Head(names) \in broken
                   THEN [acc EXCEPT !.failed = Append(@, Head(names))]
                   ELSE [acc EXCEPT !.healthy = Append(@, Head(names))])

\* the orchestrator after __init__: agent (None or built over agent_servers),
\* tools (the configuration last assigned to self.tools), the two lists
Orchestrator(agent, agent_servers, tools, healthy, failed) ==
    [agent_available |-> agent, agent_servers |-> agent_servers, tools |-> tools,
     healthy_servers |-> healthy, failed_servers |-> failed]

init_with_graceful_degradation(servers, combined_ok, broken, final_ok) ==
    LET p == ProbeEach(servers, broken, [healthy |-> <<>>, failed |-> <<>>])
    IN IF servers = <<>>
       THEN Orchestrator(FALSE, {}, {}, <<>>, <<>>)
       ELSE IF combined_ok
       THEN Orchestrator(TRUE, Range(servers), Range(servers), servers, <<>>)
       ELSE IF p.healthy # <<>>
       THEN Orchestrator(final_ok, IF final_ok THEN Range(p.healthy) ELSE {},
                         Range(p.healthy), p.healthy, p.failed)
       ELSE Orchestrator(FALSE, {}, Range(servers), p.healthy, p.failed)

\* init_mcp_with_degradation: a server without URL is taken to work
init_mcp_with_degradation(servers, broken, stdio) ==
    LET p == ProbeEach(servers, broken \ stdio, [healthy |-> <<>>, failed |-> <<>>])
    IN Orchestrator(FALSE, {}, Range(p.healthy), p.healthy, p.failed)

Configurations == {SubSeq(ServerOrder, 1, k) : k \in 0..MaxServers}

InitMCP ==
    /\ InitBeside
    /\ build \in {"v12", "v12.2"}
    /\ now = 0
    /\ sessions = NoSessions
    /\ nextSid = 1
    /\ ret = NoRet
    /\ ops = 0
    /\ \E servers \in Configurations, broken \in SUBSET MCPServers, stdio \in SUBSET MCPServers,
          combined_ok \in BOOLEAN, final_ok \in BOOLEAN :
          /\ broken \subseteq Range(servers)
          /\ stdio \subseteq Range(servers)
          /\ build = "v12" => stdio = {}
          /\ build = "v12.2" => ~combined_ok /\ ~final_ok
          /\ combined_ok => broken = {}
          /\ arg = [fn |-> "init_mcp", servers |-> servers, broken |-> broken,
                    stdio |-> stdio, combined_ok |-> combined_ok, final_ok |-> final_ok]
    /\ turn = NoTurn
    /\ openai_client = FALSE

InitializeMCP ==
    /\ arg.fn = "init_mcp"
    /\ ret = NoRet
    /\ ret' = [op |-> "init_mcp"] @@
              (IF build = "v12"
               THEN init_with_graceful_degradation(arg.servers, arg.combined_ok,
                                                   arg.broken, arg.final_ok)
               ELSE init_mcp_with_degradation(arg.servers, arg.broken, arg.stdio))
    /\ UNCHANGED <<build, now, sessions, nextSid, ops, arg, turn, openai_client, parked, fact_tasks, milvus, workspace>>

SpecMCP == InitMCP /\ [][InitializeMCP]_vars

(***************************************************************************)
(* WorkspaceLoader.  The files are given by the version of their content:  *)
(* 0 for a file that does not exist, and one more with every write.  The   *)
(* cache holds, per file, the version it was loaded with (-1 for none) and *)
(* the time of the load.  rag_proxy.py keeps the whole context under one   *)
(* key and one time; animara_rag_proxy_v12.py keeps each file on its own.  *)
(***************************************************************************)
Today == "memory/today.md"

Files == {"SOUL.md", Today}

Loaded(w, f, t) == w.cache[f] # -1 /\ (t - w.cache_time[f]) < cache_ttl

\* WorkspaceLoader.get_context of rag_proxy.py at time t
get_context_at(w, t) ==
    IF (\E f \in Files : w.cache[f] # -1) /\ (\A f \in Files : (t - w.cache_time[f]) < cache_ttl)
    THEN [workspace |-> w, value |-> w.cache, read |-> {}]
    ELSE [workspace |-> [w EXCEPT !.cache = w.files,
                                  !.cache_time = [f \in Files |-> t]],
          value |-> w.files,
          read |-> {f \in Files : w.files[f] > 0}]

\* WorkspaceLoader._read_file of animara_rag_proxy_v12.py, for every file
\* that load reads for the owner
load_at(w, t) ==
    LET hit == {f \in Files : Loaded(w, f, t)}
        read == {f \in Files \ hit : w.files[f] > 0}
    IN [workspace |-> [w EXCEPT !.cache = [f \in Files |-> IF f \in read THEN w.files[f] ELSE @[f]],
                                !.cache_time = [f \in Files |-> IF f \in read THEN t ELSE @[f]]],
        value |-> [f \in Files |-> IF f \in hit THEN w.cache[f] ELSE w.files[f]],
        read |-> read]

\* write_memory that leaves the cache as it is
write_memory_keeps_cache(b, w) == [w EXCEPT !.files[Today] = @ + 1]

\* write_memory: the block is added to today's file and the cache is
\* emptied (rag_proxy.py) or loses the entry of that file (v12)
write_memory(b, w) ==
    IF b = "v12"
    THEN [w EXCEPT !.files[Today] = @ + 1, !.cache[Today] = -1]
    ELSE [w EXCEPT !.files[Today] = @ + 1, !.cache = [f \in Files |-> -1]]

InitWorkspace ==
    /\ build \in {"core", "v12"}
    /\ now = 0
    /\ sessions = NoSessions
    /\ nextSid = 1
    /\ ret = NoRet
    /\ ops = 0
    /\ arg = NoArg
    /\ turn = NoTurn
    /\ openai_client = FALSE
    /\ parked = NoTurn
    /\ fact_tasks = <<>>
    /\ milvus = <<>>
    /\ workspace \in {NoWorkspace, [NoWorkspace EXCEPT !.files[Today] = 1]}

\* workspace.get_context() / workspace.load(owner)
ReadWorkspace ==
    /\ ops < MaxOps
    /\ LET r == IF build = "v12" THEN load_at(workspace, now)
                ELSE get_context_at(workspace, now)
       IN /\ workspace' = [r.workspace EXCEPT !.written = FALSE]
          /\ ret' = [op |-> "read", value |-> r.value, read |-> r.read, at |-> now,
                     n |-> ops + 1]
    /\ ops' = ops + 1
    /\ UNCHANGED <<build, now, sessions, nextSid, arg, turn, openai_client,
                   parked, fact_tasks, milvus>>

\* workspace.write_memory(content) has completed
WriteMemory ==
    /\ ops < MaxOps
    /\ workspace' = [write_memory(build, workspace) EXCEPT !.written = TRUE]
    /\ ops' = ops + 1
    /\ UNCHANGED <<build, now, sessions, nextSid, ret, arg, turn, openai_client,
                   parked, fact_tasks, milvus>>

\* the owner edits the persona file on disk
EditFile ==
    /\ ops < MaxOps
    /\ workspace' = [workspace EXCEPT !.files["SOUL.md"] = @ + 1]
    /\ ops' = ops + 1
    /\ UNCHANGED <<build, now, sessions, nextSid, ret, arg, turn, openai_client,
                   parked, fact_tasks, milvus>>

NextWorkspace ==
    \/ ReadWorkspace
    \/ WriteMemory
    \/ EditFile
    \/ Tick(30)

SpecWorkspace == InitWorkspace /\ [][NextWorkspace]_vars

(***************************************************************************)
(* The token estimators on texts of every length up to MaxText:            *)
(* count_tokens of the core revisions and estimate_tokens of               *)
(* animara_rag_proxy_v12.py.                                               *)
(***************************************************************************)
InitEstimate ==
    /\ InitBeside
    /\ build \in {"core", "v10_6", "v12"}
    /\ now = 0
    /\ sessions = NoSessions
    /\ nextSid = 1
    /\ ret = NoRet
    /\ ops = 0
    /\ arg \in [fn : {"estimate_tokens"}, len : 0..MaxText]
    /\ turn = NoTurn
    /\ openai_client = FALSE

EstimateTokens ==
    /\ arg.fn = "estimate_tokens"
    /\ ret = NoRet
    /\ ret' = [op |-> "estimate_tokens", len |-> arg.len,
               value |-> IF build = "v12" THEN estimate_tokens(arg.len)
                         ELSE count_tokens(Text(arg.len))]
    /\ UNCHANGED <<build, now, sessions, nextSid, ops, arg, turn, openai_client,
                   parked, fact_tasks, milvus, workspace>>

SpecEstimate == InitEstimate /\ [][EstimateTokens]_vars

(***************************************************************************)
(* The mode commands of AnimaraProcessor.process.  A text is the sequence  *)
(* of its words after strip(); the Russian phrases are written in Latin    *)
(* letters.  `p in _input_lower` is the search for the words of p, in      *)
(* their order and next to each other, in the text.                        *)
(***************************************************************************)
god_phrases ==
    {<<"/god">>, <<"god", "mode">>, <<"rezhim", "boga">>,
     <<"vklyuchi", "rezhim", "boga">>, <<"vklyuchi", "god", "mode">>}

local_phrases ==
    {<<"/local">>, <<"local", "mode">>, <<"lokalnyi", "rezhim">>,
     <<"vyklyuchi", "rezhim", "boga">>, <<"obychnyi", "rezhim">>,
     <<"vklyuchi", "lokalnyi">>}

\* user_input.strip().lower()
input_lower(ws) ==
    [i \in 1..Len(ws) |-> CASE ws[i] = "/GOD" -> "/god"
                            [] ws[i] = "Local" -> "local"
                            [] ws[i] = "Mode" -> "mode"
                            [] OTHER -> ws[i]]

\* p in _input_lower
InText(ph, ws) ==
    \E i \in 1..(Len(ws) - Len(ph) + 1) : SubSeq(ws, i, i + Len(ph) - 1) = ph

\* _input_lower in phrases or any(p in _input_lower for p in phrases)
phrase_match(phrases, ws) == ws \in phrases \/ \E ph \in phrases : InText(ph, ws)

\* AnimaraProcessor.process: the two tests of the mode phrases
mode_command(ws) ==
    LET low == input_lower(ws)
    IN IF phrase_match(god_phrases, low) THEN "GOD_ON"
       ELSE IF phrase_match(local_phrases, low) THEN "GOD_OFF"
       ELSE "NONE"

\* the texts that are a mode command, as written, in capitals, and in a sentence
CommandTexts ==
    god_phrases \cup local_phrases
    \cup {<<"/GOD">>, <<"Local", "Mode">>, <<"please", "/local">>,
          <<"vklyuchi", "lokalnyi", "rezhim">>}

InitToggle ==
    /\ InitBeside
    /\ build = "v12"
    /\ now = 0
    /\ ret = NoRet
    /\ ops = 0
    /\ arg = NoArg
    /\ turn = NoTurn
    /\ openai_client = FALSE
    /\ \/ sessions = NoSessions /\ nextSid = 1
       \/ /\ nextSid = 2
          /\ \E g \in BOOLEAN :
               sessions = [NoSessions EXCEPT
                              ![Owner] = [NewSessionV12(1, 0) EXCEPT !.god_mode = g]]

\* process(user_input, person_id) for a text that is a mode command
ProcessCommand(p, ws) ==
    /\ ops < MaxOps
    /\ mode_command(ws) # "NONE"
    /\ LET ss1 == get_or_create_v12(sessions, p, nextSid, now)
           on == mode_command(ws) = "GOD_ON"
       IN /\ nextSid' = IF Installed(sessions, ss1, p) THEN nextSid + 1 ELSE nextSid
          /\ sessions' = [ss1 EXCEPT ![p].god_mode = on]
          /\ ret' = [op |-> "process", caller |-> p, input |-> ws,
                     content |-> mode_command(ws), god_mode |-> on]
    /\ ops' = ops + 1
    /\ UNCHANGED <<build, now, arg, turn, openai_client, parked, fact_tasks, milvus, workspace>>

NextToggle == \E p \in Callers : \E ws \in CommandTexts : ProcessCommand(p, ws)

SpecToggle == InitToggle /\ [][NextToggle]_vars

(***************************************************************************)
(* filter_mcp_config on every configuration of up to MaxServers servers    *)
(* and every set of needed tools over four servers and a name that no      *)
(* configuration holds.                                                    *)
(***************************************************************************)
NeededNames == {"yougile", "filesystem", "time", "milvus", "weather"}

InitFilter ==
    /\ InitBeside
    /\ build = "v12.2"
    /\ now = 0
    /\ sessions = NoSessions
    /\ nextSid = 1
    /\ ret = NoRet
    /\ ops = 0
    /\ arg \in [fn : {"filter_mcp_config"},
               full_config : {Range(c) : c \in Configurations},
               needed_tools : SUBSET NeededNames]
    /\ turn = NoTurn
    /\ openai_client = FALSE

FilterMCPConfig ==
    /\ arg.fn = "filter_mcp_config"
    /\ ret = NoRet
    /\ ret' = [op |-> "filter_mcp_config",
               value |-> filter_mcp_config(arg.full_config, arg.needed_tools)]
    /\ UNCHANGED <<build, now, sessions, nextSid, ops, arg, turn, openai_client,
                   parked, fact_tasks, milvus, workspace>>

SpecFilter == InitFilter /\ [][FilterMCPConfig]_vars

(***************************************************************************)
(* Turns of the owner and of another caller, one after the other, with the *)
(* mode commands among the messages: the core revisions from a manager     *)
(* without sessions.                                                       *)
(***************************************************************************)
ModeRequests ==
    [person_id : Callers, enable_tools : {TRUE}, user_message : {"hello", "/god", "/local"}]

InitModes ==
    /\ InitBeside
    /\ build \in CoreBuilds
    /\ now = 0
    /\ ret = NoRet
    /\ ops = 0
    /\ arg = NoArg
    /\ turn = NoTurn
    /\ sessions = NoSessions
    /\ nextSid = 1
    /\ openai_client = (build = "v10_6")

NextModes ==
    \/ \E req \in ModeRequests : ChatRequest(req)
    \/ LLMRespond(<<"x">>)
    \/ GodRespond([content |-> <<"x">>, tool_calls |-> <<>>])
    \/ CodexReturns(<<"Z", "x">>)
    \/ TurnOver

SpecModes == InitModes /\ [][NextModes]_vars

(***************************************************************************)
(* A flush beside the turns of the same caller: memory_flush reads the     *)
(* dialogue, awaits the summary and then compacts the session as it is by  *)
(* then.  The flush is the one chat_completions starts on a session over   *)
(* flush_threshold or the one of POST /session/{person_id}/flush; the      *)
(* other handler takes its steps while the summary is awaited.             *)
(***************************************************************************)
\* a session of n short messages, user and assistant in turn
ShortSession(n) ==
    [NewSession(1, 0) EXCEPT
        !.messages = [i \in 1..n |->
                        [role |-> IF i % 2 = 1 THEN "user" ELSE "assistant",
                         content |-> Text(4), tokens |-> count_tokens(Text(4)),
                         is_tool |-> FALSE, id |-> i]],
        !.total_tokens = n * count_tokens(Text(4)),
        !.appended = n]

InitRace ==
    /\ InitBeside
    /\ build = "core"
    /\ now = 0
    /\ ret = NoRet
    /\ ops = 0
    /\ arg = NoArg
    /\ turn = NoTurn
    /\ openai_client = FALSE
    /\ nextSid = 2
    /\ sessions \in {[NoSessions EXCEPT ![Owner] = ShortSession(2)],
                     [NoSessions EXCEPT ![Owner] = LoadedSession(1, FALSE, 0)]}

\* force_flush, up to the await in memory_flush
ForceFlush(p) ==
    /\ turn.pc = "idle"
    /\ HasSession(sessions, p)
    /\ turn' = [NoTurn EXCEPT !.person_id = p, !.pc = "flush_forced", !.path = "flush",
                              !.flush_context = get_full_context(sessions[p])]
    /\ UNCHANGED <<build, now, sessions, nextSid, ret, ops, arg, openai_client,
                   parked, fact_tasks, milvus, workspace>>

\* force_flush: memory_flush has its summary or has failed, and the endpoint returns
ForcedFlushReturns(ok) ==
    /\ turn.pc = "flush_forced"
    /\ LET p == turn.person_id
           ss1 == [sessions EXCEPT ![p] = memory_flush(@, ok)]
       IN /\ sessions' = ss1
          /\ turn' = [turn EXCEPT !.pc = "done", !.flush_calls = @ + 1,
                                  !.flush_result = IF ok THEN "done" ELSE "failed",
                                  !.after_flush = ss1[p]]
    /\ UNCHANGED <<build, now, nextSid, ret, ops, arg, openai_client,
                   parked, fact_tasks, milvus, workspace>>

NextRace ==
    \/ ForceFlush(Owner)
    \/ \E ok \in BOOLEAN : ForcedFlushReturns(ok)
    \/ ChatRequest([person_id |-> Owner, enable_tools |-> TRUE, user_message |-> "hello"])
    \/ \E ok \in BOOLEAN : MemoryFlush(ok)
    \/ LLMRespond(<<"x">>)
    \/ turn.iteration < MaxRaceRounds /\ LLMRespond(<<"T", "J", "/T">>)
    \/ ToolReturns([kind |-> "returns", len |-> 40])
    \/ Switch

SpecRace == InitRace /\ [][NextRace]_vars

(***************************************************************************)
(* SmartRouter.classify on texts.  A text is a sequence of words, joined   *)
(* by single blanks, possibly with blanks in front (lead) or behind        *)
(* (trail), which text = user_input.strip() removes.  The words:           *)
(*   "vremya", "chas"  stand for the Russian words for time and hour       *)
(*                     (tool keywords, no pattern);                        *)
(*   "x7"              stands for seven words no pattern knows             *)
(*                     ("one two three four five six seven");              *)
(*   the others are themselves.                                            *)
(* The patterns modelled are those of the two tables, the keyword set and  *)
(* the _guess_tools mapping that can match a text over these words.        *)
(***************************************************************************)
Vocabulary ==
    {"hello", "ok", "task", "recall", "code", "what", "time", "vremya", "chas",
     "/status", "/god", "/GOD", "/local", "x7"}

\* len(w.split())
WordCount(w) == IF w = "x7" THEN 7 ELSE 1

RECURSIVE SplitLen(_)
\* len(text.split())
SplitLen(ws) == IF ws = <<>> THEN 0 ELSE WordCount(Head(ws)) + SplitLen(Tail(ws))

\* re.IGNORECASE
Lower(w) == IF w = "/GOD" THEN "/god" ELSE w

\* the god-mode expression without re.IGNORECASE
toggle_match_cased(ws) == Len(ws) = 1 /\ ws[1] \in {"/god", "/local"}

\* re.match(r"(?:...|god mode|/god|/local)$", text, re.IGNORECASE)
toggle_match(ws) == Len(ws) = 1 /\ Lower(ws[1]) \in {"/god", "/local"}

\* text.startswith("/")
startswith_slash(ws) ==
    ws # <<>> /\ ws[1] \in {"/status", "/god", "/GOD", "/local"}

\* pattern.search(text) for a pattern that is one word
HasWord(ws, w) == \E i \in 1..Len(ws) : ws[i] = w

\* pattern.search(text) for a pattern of two words with a blank between
HasPair(ws, w1, w2) == \E i \in 1..(Len(ws) - 1) : ws[i] = w1 /\ ws[i + 1] = w2

\* TOOL_PATTERNS: the rows a text over Vocabulary can match
TOOL_PATTERNS ==
    {[id |-> "task", tools |-> {"yougile"}],
     [id |-> "recall", tools |-> {"memory", "milvus"}],
     [id |-> "what time", tools |-> {"time"}]}

\* pattern.search(text) for a row of TOOL_PATTERNS
ToolPatternSearch(row, ws) ==
    IF row.id = "what time" THEN HasPair(ws, "what", "time") ELSE HasWord(ws, row.id)

\* the for loop over self._tool_compiled: needed_tools.update(tools)
MatchedTools(ws) == UNION {row.tools : row \in {r \in TOOL_PATTERNS : ToolPatternSearch(r, ws)}}

\* the for loop over self._direct_compiled: "^(?:...|hello|...)\b" and "(?:...|code|...)"
DirectPatternSearch(ws) == (ws # <<>> /\ ws[1] = "hello") \/ HasWord(ws, "code")

\* _keyword_score: the words of the text among tool_keywords
tool_keywords == {"vremya", "chas"}

KeywordOverlap(ws) == Cardinality({ws[i] : i \in 1..Len(ws)} \cap tool_keywords)

\* _guess_tools: "time": [the Russian words for time, hour, date]
guess_tools(ws) == IF HasWord(ws, "vremya") \/ HasWord(ws, "chas") THEN {"time"} ELSE {}

\* what classify finds in user_input; text = user_input.strip()
Features(ws) ==
    [text |-> "", god_phrase |-> FALSE, local_phrase |-> FALSE,
     toggle |-> toggle_match(ws), slash |-> startswith_slash(ws),
     matched |-> MatchedTools(ws), direct |-> DirectPatternSearch(ws),
     overlap |-> KeywordOverlap(ws), guess |-> guess_tools(ws), words |-> SplitLen(ws)]

TextsOfLen(n) ==
    [1..n -> Vocabulary]

Texts == UNION {TextsOfLen(n) : n \in 0..MaxWords}

\* the servers the orchestrator holds after _init_with_graceful_degradation
ServerSets == {MCPServers, MCPServers \ {"milvus"}}

InitClassify ==
    /\ InitBeside
    /\ build = "v12.2"
    /\ now = 0
    /\ sessions = NoSessions
    /\ nextSid = 1
    /\ ret = NoRet
    /\ ops = 0
    /\ arg \in [fn : {"classify"}, lead : BOOLEAN, trail : BOOLEAN, words : Texts,
               healthy_servers : ServerSets]
    /\ turn = NoTurn
    /\ openai_client = FALSE

Classify ==
    /\ arg.fn = "classify"
    /\ ret = NoRet
    /\ ret' = [op |-> "classify", value |-> classify(Features(arg.words))]
    /\ UNCHANGED <<build, now, sessions, nextSid, ops, arg, turn, openai_client, parked, fact_tasks, milvus, workspace>>

NextClassify == Classify

SpecClassify == InitClassify /\ [][NextClassify]_vars

\* _auto_flush that marks the session flushed whatever happened
auto_flush_marks_anyway(s, p, w, rows, fl) ==
    [session |-> [s EXCEPT !.flush_done = TRUE], workspace |-> w, milvus |-> rows]

\* AnimaraProcessor._auto_flush: write_memory, then the insert of the summary,
\* then flush_done; fl tells which of the calls raises, and the handler of
\* exceptions only logs
auto_flush(s, p, w, rows, fl) ==
    IF fl = "write_fails" THEN [session |-> s, workspace |-> w, milvus |-> rows]
    ELSE IF fl = "insert_fails"
    THEN [session |-> s, workspace |-> [write_memory("v12", w) EXCEPT !.written = TRUE],
          milvus |-> rows]
    ELSE [session |-> [s EXCEPT !.flush_done = TRUE],
          workspace |-> [write_memory("v12", w) EXCEPT !.written = TRUE],
          milvus |-> Append(rows, MemoryRow(p, s.session_id,
                                            "session_summary", "summary"))]

\* for fact in self.facts.extract(user_input): self._save_fact(person_id, fact);
\* saved tells whether the inserts go through
save_facts(rows, s, p, facts, saved) ==
    IF saved
    THEN rows \o [i \in 1..Len(facts) |-> MemoryRow(p, s.session_id, "fact", facts[i])]
    ELSE rows

\* AnimaraProcessor.process after the response is there: the reply is
\* stored, the facts of the user input are saved and the session is flushed
\* when it is over the threshold and not flushed yet
Finish(t, ss, response_text, sid, tnow, saved, fl) ==
    LET p == t.person_id
        ss1 == add_message_v12(ss, p, "assistant", Text(StrLen(response_text)), sid, tnow)
        rows == save_facts(milvus, ss1[p], p, extract("v12.2", t.user_message), saved)
        due == ss1[p].total_tokens > flush_threshold /\ ~ss1[p].flush_done
        f == auto_flush(ss1[p], p, workspace, rows, fl)
    IN IF due
       THEN [turn |-> Respond([t EXCEPT !.flush_calls = @ + 1,
                                        !.flush_result = IF fl = "ok" THEN "done" ELSE "failed",
                                        !.after_flush = f.session], response_text),
             sessions |-> [ss1 EXCEPT ![p] = f.session],
             milvus |-> f.milvus, workspace |-> f.workspace]
       ELSE [turn |-> Respond(t, response_text), sessions |-> ss1,
             milvus |-> rows, workspace |-> workspace]

\* AnimaraProcessor.process up to the routed call
ProcessRequest(p, u) ==
    /\ build = "v12.2"
    /\ turn.pc = "idle"
    /\ LET ss1 == get_or_create_v12(sessions, p, nextSid, now)
           t0 == [NoTurn EXCEPT !.person_id = p, !.user_message = u.text]
           rag == hybrid_search("v12", u.text, p, <<>>, <<>>, <<>>)
           route == classify(u)
       IN /\ nextSid' = IF Installed(sessions, ss1, p) THEN nextSid + 1 ELSE nextSid
          /\ IF u.god_phrase
             THEN /\ sessions' = [ss1 EXCEPT ![p].god_mode = TRUE]
                  /\ turn' = Respond([t0 EXCEPT !.path = "command"], <<"GOD_ON">>)
             ELSE IF u.local_phrase
             THEN /\ sessions' = [ss1 EXCEPT ![p].god_mode = FALSE]
                  /\ turn' = Respond([t0 EXCEPT !.path = "command"], <<"GOD_OFF">>)
             ELSE /\ sessions' = add_message_v12(ss1, p, "user", Text(Len(u.text)),
                                                 nextSid, now)
                  /\ turn' = [t0 EXCEPT !.pc = route.route, !.path = route.route,
                                        !.route = route.route,
                                        !.needed_tools = route.needed_tools,
                                        !.workspace_ctx = load(p),
                                        !.vector_searches = IF rag.vector_called THEN 1 ELSE 0,
                                        !.lexical_searches = IF rag.bm25_called THEN 1 ELSE 0]
    /\ UNCHANGED <<build, now, ret, ops, arg, openai_client, parked, fact_tasks, milvus, workspace>>

\* route "direct": call_llm_direct came back; None sends the turn to the agent
DirectReturns(o, saved, fl) ==
    /\ turn.pc = "direct"
    /\ LET response == call_llm_direct(o)
           t0 == [turn EXCEPT !.backend_calls = @ + 1, !.direct = o]
           d == Finish(t0, sessions, response.text, nextSid, now, saved, fl)
       IN IF response.none
          THEN /\ turn' = [t0 EXCEPT !.pc = "agent", !.route = "agent",
                                     !.needed_tools = {}]
               /\ UNCHANGED <<sessions, milvus, workspace>>
          ELSE /\ turn' = d.turn
               /\ sessions' = d.sessions
               /\ milvus' = d.milvus
               /\ workspace' = d.workspace
    /\ UNCHANGED <<build, now, nextSid, ret, ops, arg, openai_client, parked, fact_tasks>>

\* route "agent": orchestrator.run with the filtered servers came back
AgentReturns(a, f, saved, fl) ==
    /\ turn.pc = "agent"
    /\ LET t0 == [turn EXCEPT !.mcp_config = filter_mcp_config(MCPServers, turn.needed_tools),
                              !.agent_runs = @ + 1]
           d == Finish(t0, sessions, run(arg.agent, a, f), nextSid, now, saved, fl)
       IN /\ turn' = d.turn
          /\ sessions' = d.sessions
          /\ milvus' = d.milvus
          /\ workspace' = d.workspace
    /\ UNCHANGED <<build, now, nextSid, ret, ops, arg, openai_client, parked, fact_tasks>>

UserInput(text, god, local, toggle, slash, matched, direct, overlap, guess, words) ==
    [text |-> text, god_phrase |-> god, local_phrase |-> local, toggle |-> toggle,
     slash |-> slash, matched |-> matched, direct |-> direct, overlap |-> overlap,
     guess |-> guess, words |-> words]

UserInputs ==
    {UserInput("hello", FALSE, FALSE, FALSE, FALSE, {}, TRUE, 0, {}, 1),
     UserInput("/god", TRUE, FALSE, TRUE, TRUE, {}, FALSE, 0, {}, 1),
     UserInput("/local", FALSE, TRUE, TRUE, TRUE, {}, FALSE, 0, {}, 1),
     UserInput("/status", FALSE, FALSE, FALSE, TRUE, {}, FALSE, 0, {}, 1),
     UserInput("what time is it", FALSE, FALSE, FALSE, FALSE, {"time"}, FALSE, 0, {}, 4),
     \* "time hour" in Russian, in Latin letters
     UserInput("vremya chas", FALSE, FALSE, FALSE, FALSE, {}, FALSE, 2, {"time"}, 2),
     UserInput("ok fine", FALSE, FALSE, FALSE, FALSE, {}, FALSE, 0, {}, 2),
     \* "I live in Moscow" in Russian, in Latin letters
     UserInput("ya zhivu v Moskve", FALSE, FALSE, FALSE, FALSE, {}, FALSE, 0, {}, 4),
     UserInput("one two three four five six seven eight nine",
               FALSE, FALSE, FALSE, FALSE, {}, FALSE, 0, {}, 9)}

ThinkTexts ==
    {<<>>, <<"x">>, <<"_">>, <<"K", "x", "/K">>, <<"K", "x", "/K", "_", "x">>,
     <<"K", "x">>, <<"K", "/K">>}

DirectOutcomes ==
    {Http("200", c) : c \in ThinkTexts}
    \cup {Http("500", <<>>), Http("timeout", <<>>), Http("exception", <<>>)}

AgentOutcomes == {Http("text", c) : c \in ThinkTexts} \cup {Http("raises", <<>>)}

FallbackOutcomes ==
    {Http("200", c) : c \in {<<>>, <<"x">>, <<"_">>, <<"K", "/K">>}}
    \cup {Http("500", <<>>), Http("exception", <<>>)}

\* what _auto_flush can meet
FlushOutcomes == {"ok", "write_fails", "insert_fails"}

\* the owner's v12 session after twenty messages of 4500 characters
HeavySessionV12 ==
    [NewSessionV12(1, 0) EXCEPT
        !.messages = [i \in 1..session_max_messages |->
                        [role |-> IF i % 2 = 1 THEN "user" ELSE "assistant",
                         content |-> Text(4500), id |-> i]],
        !.total_tokens = session_max_messages * (4500 \div 3),
        !.appended = session_max_messages]

InitRoute ==
    /\ InitBeside
    /\ build = "v12.2"
    /\ now = 0
    /\ \/ sessions = NoSessions /\ nextSid = 1
       \/ sessions = [NoSessions EXCEPT ![Owner] = HeavySessionV12] /\ nextSid = 2
    /\ ret = NoRet
    /\ ops = 0
    /\ arg \in [fn : {"process"}, agent : BOOLEAN]
    /\ turn = NoTurn
    /\ openai_client = FALSE

NextRoute ==
    \/ \E p \in Callers, u \in UserInputs : ProcessRequest(p, u)
    \/ \E o \in DirectOutcomes, saved \in BOOLEAN, fl \in FlushOutcomes :
          DirectReturns(o, saved, fl)
    \/ \E a \in AgentOutcomes, f \in FallbackOutcomes, saved \in BOOLEAN, fl \in FlushOutcomes :
          AgentReturns(a, f, saved, fl)

SpecRoute == InitRoute /\ [][NextRoute]_vars

(***************************************************************************)
(* Session accounting and bounds                                           *)
(***************************************************************************)

\* C1: in the core Session, total_tokens equals the sum of the stored token
\* estimates of the held messages, after any add_message and compact calls.
\* Violated: a pruned tool result of 201..209 characters gets a larger stored
\* estimate (212 // 3 = 70) while total_tokens is only ever lowered.
CoreTotalTokensIsSum ==
    \A p \in Callers :
        (build \in CoreBuilds /\ HasSession(sessions, p))
            => sessions[p].total_tokens = SumTokens(sessions[p].messages)

\* C2: in the v12 SessionManager, total_tokens equals the sum of len(content) // 3
\* over the messages held in the deque.  Violated once the deque has dropped
\* a message: add_message never subtracts.
V12TotalTokensIsSum ==
    \A p \in Callers :
        (build = "v12" /\ HasSession(sessions, p))
            => sessions[p].total_tokens = SumEstimatesV12(sessions[p].messages)

\* C3: a session never holds more than session_max_messages messages, and the
\* held messages are, in insertion order, the most recently appended ones: the
\* i-th held message is the (appended - held + i)-th message ever appended, so
\* whatever was removed was older than everything kept.
HeldIsBoundedSuffix ==
    \A p \in Callers :
        HasSession(sessions, p) =>
            LET s == sessions[p]
                n == Len(s.messages)
            IN /\ n <= session_max_messages
               /\ \A i \in 1..n : s.messages[i].id = s.appended - n + i

\* C3 witness: an add_message has just evicted at the cap
EvictedAtCap ==
    /\ ret.op = "add_message"
    /\ HasSession(sessions, ret.caller)
    /\ Len(sessions[ret.caller].messages) = session_max_messages
    /\ sessions[ret.caller].appended > session_max_messages

(***************************************************************************)
(* get_or_create                                                           *)
(***************************************************************************)
Idle(s) == now - s.last_activity

SameSession(a, b) ==
    /\ a.session_id = b.session_id
    /\ a.messages = b.messages
    /\ a.total_tokens = b.total_tokens
    /\ a.god_mode = b.god_mode
    /\ build \in CoreBuilds => a = b

FreshSession(s) ==
    /\ s.session_id = nextSid
    /\ s.messages = <<>>
    /\ s.total_tokens = 0
    /\ s.god_mode = FALSE
    /\ build \in CoreBuilds => s.tool_calls = 0

\* C4: get_or_create(p) returns p's session; it is the existing one when there
\* is one that has not been idle for more than session_timeout, and a freshly
\* constructed empty one otherwise; afterwards p has a session, the one
\* returned, and it has not been idle for more than session_timeout.
GetOrCreateContract ==
    [][\A p \in Callers :
        (GetOrCreate(p) \/ GetOrCreateV12(p)) =>
            /\ HasSession(sessions', p)
            /\ ret'.session = sessions'[p]
            /\ now - sessions'[p].last_activity <= session_timeout
            /\ IF HasSession(sessions, p) /\ Idle(sessions[p]) <= session_timeout
               THEN SameSession(sessions'[p], sessions[p])
               ELSE FreshSession(sessions'[p])]_vars

\* C4 witness: the owner's first session expired and get_or_create replaced it
ExpiredSessionReplaced ==
    /\ build = "core"
    /\ ret.op = "get_or_create"
    /\ ret.caller = Owner
    /\ ret.session.session_id = 2
    /\ ~HasSession(sessions, Guest)
    /\ sessions[Owner].messages = <<>>
    /\ now > session_timeout

(***************************************************************************)
(* truncate_tool_result                                                    *)
(***************************************************************************)
\* the last n characters of s, for n <= Len(s)
LastChars(s, n) == SubSeq(s, Len(s) - n + 1, Len(s))

\* C9: truncate_tool_result(result, max_chars) is result when it fits; otherwise
\* it is the first max_chars // 2 characters, the marker and the last
\* max_chars // 2 characters, at most max_chars + len(marker) long - for every
\* max_chars >= 0.  Violated for max_chars 0 and 1: result[-0:] is all of result.
TruncateKeepsEnds ==
    ret.op = "truncate_tool_result" =>
        LET r == arg.result
            m == arg.max_chars
            half == m \div 2
            mark == TruncMarker(Len(r) - m)
        IN IF Len(r) <= m
           THEN ret.value = r
           ELSE /\ ret.value = SubSeq(r, 1, half) \o mark \o LastChars(r, half)
                /\ Len(ret.value) <= m + Len(mark)

(***************************************************************************)
(* The tool loops                                                          *)
(***************************************************************************)
InLoop == turn.path \in {"local", "god"} /\ turn.responses # <<>>
LoopOver == InLoop /\ turn.pc \in {"done", "raised"}

\* the reply a loop makes of a backend answer it takes as final
FinalText(path, content) ==
    IF path = "god" THEN <<"Z">> \o content ELSE Strip(RemoveToolBlocks(content))

LimitReply(path) == IF path = "god" THEN <<"GOD_LIMIT">> ELSE <<"LIMIT">>

\* the loop executed the tool call of answer r
ActedOn(r) ==
    r.tool_call /\ (turn.path = "god" \/ (turn.enable_tools /\ tools_manager))

\* C5, as stated: a tool loop makes at most max_tool_iterations backend calls and
\* returns the final text of the first answer that holds no tool call, or the
\* iteration-limit reply when each of the max_tool_iterations answers held one.
ToolLoopReturnsFirstFinal ==
    /\ turn.backend_calls <= max_tool_iterations
    /\ LoopOver =>
         LET finals == {i \in 1..Len(turn.responses) : ~turn.responses[i].tool_call}
         IN IF finals # {}
            THEN LET i == CHOOSE a \in finals : \A b \in finals : a <= b
                 IN /\ turn.pc = "done"
                    /\ turn.reply = FinalText(turn.path, turn.responses[i].content)
            ELSE /\ Len(turn.responses) = max_tool_iterations
                 /\ turn.pc = "done"
                 /\ turn.reply = LimitReply(turn.path)

\* What does hold of the two loops: at most max_tool_iterations backend calls
\* and no wait for another one after them; the loop ends at the first answer it
\* does not execute as a tool call.  A failed backend call ends the turn with an
\* exception (local loop) or a canned error reply (god mode); an answer without
\* a tool call, or with one while tools are disabled, is returned as final text;
\* a tool call whose execution raises ends the local turn with that exception;
\* after max_tool_iterations executed answers the reply is the limit text.
ToolLoopBounded ==
    /\ turn.backend_calls <= max_tool_iterations
    /\ turn.pc \in {"llm", "god_llm"} => turn.backend_calls < max_tool_iterations
    /\ InLoop =>
         \A i \in 1..(Len(turn.responses) - 1) :
             ActedOn(turn.responses[i]) /\ ~turn.responses[i].failed
    /\ LoopOver =>
         LET last == turn.responses[Len(turn.responses)]
         IN IF last.failed
            THEN IF turn.path = "local"
                 THEN turn.pc = "raised" /\ turn.raised_by = "backend"
                 ELSE turn.pc = "done" /\ turn.reply \in {<<e>> : e \in GodErrors}
            ELSE IF ~ActedOn(last)
            THEN turn.pc = "done" /\ turn.reply = FinalText(turn.path, last.content)
            ELSE IF turn.raised_by = "execute_tool"
            THEN turn.pc = "raised" /\ turn.path = "local"
            ELSE /\ Len(turn.responses) = max_tool_iterations
                 /\ turn.pc = "done"
                 /\ turn.reply = LimitReply(turn.path)

\* a local turn whose five answers were all executed as tool calls and that ended
\* with the iteration-limit reply
LimitReached ==
    /\ turn.pc = "done"
    /\ turn.path = "local"
    /\ turn.backend_calls = max_tool_iterations
    /\ Len(turn.execs) = max_tool_iterations
    /\ turn.reply = <<"LIMIT">>

\* C6, as stated: every response of the chat-completions endpoint carries
\* non-empty assistant content.
ResponseContentNonEmpty == turn.pc = "done" => turn.reply # <<>>

\* C8, as stated: execute_tool never raises to its caller; an unknown name gives
\* an error string and no handler runs, a timeout and a handler exception give
\* error strings, and the loop goes on to its next iteration.
ExecuteToolNeverRaises ==
    /\ turn.raised_by # "execute_tool"
    /\ \A i \in 1..Len(turn.execs) :
         LET x == turn.execs[i]
         IN /\ ~x.raised
            /\ x.name \notin Tools => ~x.invoked /\ x.value.kind = "unknown"
            /\ x.handler = "timeout" => x.value.kind = "timeout"
            /\ x.handler = "raises" => x.value.kind = "error"

\* C10, as stated: a tool output that a loop appends to the backend
\* conversation or records in the session is at most L_out characters plus the
\* truncation marker long.
ToolOutputsTruncated ==
    LET Bounded(n) == n <= L_out + Len(TruncMarker(n))
    IN /\ \A i \in 1..Len(turn.llm_messages) : Bounded(turn.llm_messages[i].result.len)
       /\ \A i \in 1..Len(turn.openai_messages) : Bounded(turn.openai_messages[i].result.len)
       /\ \A p \in Callers :
            HasSession(sessions, p) =>
              \A i \in 1..Len(sessions[p].messages) :
                 sessions[p].messages[i].is_tool =>
                     Bounded(sessions[p].messages[i].content.len)

(***************************************************************************)
(* The direct route                                                        *)
(***************************************************************************)
\* C7, as stated: when the direct call fails or its text is empty once the think
\* blocks are removed, the turn runs the agent with an empty tool set, and the
\* empty text of the direct call is not what the client gets.
DirectFallsBackToAgent ==
    (turn.pc = "done" /\ turn.direct.kind # "none"
        /\ (turn.direct.kind # "200" \/ strip_think(turn.direct.content) = <<>>))
    => turn.agent_runs = 1 /\ turn.mcp_config = {}

(***************************************************************************)
(* SmartRouter.classify                                                    *)
(***************************************************************************)
Classified == ret.op = "classify"

\* the first character of user_input is "/"
FirstCharSlash == ~arg.lead /\ startswith_slash(arg.words)

\* C11: for an input that is neither a mode toggle nor a slash command, a
\* matching tool pattern gives route agent, needed_tools the union of the tool
\* sets of all matching tool patterns and confidence 0.9, a matching direct
\* pattern or not; a direct pattern gives direct with no tools only when no
\* tool pattern matches.
ToolPatternsDecideFirst ==
    (Classified /\ ~toggle_match(arg.words) /\ ~startswith_slash(arg.words)) =>
        LET hits == {r \in TOOL_PATTERNS : ToolPatternSearch(r, arg.words)}
        IN /\ hits # {} =>
                /\ ret.value.route = "agent"
                /\ \A t \in MCPServers :
                       t \in ret.value.needed_tools <=> \E r \in hits : t \in r.tools
                /\ ret.value.needed_tools \subseteq MCPServers
                /\ ret.value.confidence = <<9, 10>>
           /\ (hits = {} /\ DirectPatternSearch(arg.words)) =>
                /\ ret.value.route = "direct"
                /\ ret.value.needed_tools = {}

\* a text that matches two tool patterns and a direct pattern was classified
ToolAndDirectMatched ==
    /\ Classified
    /\ arg.words = <<"hello", "task", "recall">>
    /\ ret.value.needed_tools = {"yougile", "memory", "milvus"}

\* C12: every result of classify has route direct or agent, a direct result has
\* no needed_tools, and every name in needed_tools is a name of the tool
\* registry (ToolsManager.tools, or the servers the orchestrator holds).
RouteResultWellFormed ==
    Classified =>
        /\ ret.value.route \in {"direct", "agent"}
        /\ ret.value.route = "direct" => ret.value.needed_tools = {}
        /\ ret.value.needed_tools \subseteq (Tools \cup arg.healthy_servers)

\* C13, as stated: an input whose first character is "/" is agent with no tools
\* and confidence 1.0, except exactly "/god" and "/local", which are direct.
SlashIsAgentButExactToggles ==
    (Classified /\ FirstCharSlash) =>
        IF ~arg.trail /\ arg.words \in {<<"/god">>, <<"/local">>}
        THEN ret.value.route = "direct"
        ELSE ret.value = RouteResult("agent", {}, <<1, 1>>)

\* C13, amended: an input whose first character is "/" is agent with no tools
\* and confidence 1.0 whatever tool or direct pattern it matches, unless,
\* stripped of surrounding white space, it is /god or /local in any letter
\* case; then it is direct with no tools and confidence 1.0.
SlashIsAgentButToggles ==
    (Classified /\ FirstCharSlash) =>
        IF Len(arg.words) = 1 /\ Lower(arg.words[1]) \in {"/god", "/local"}
        THEN ret.value = RouteResult("direct", {}, <<1, 1>>)
        ELSE ret.value = RouteResult("agent", {}, <<1, 1>>)

\* a slash command with a tool pattern and a direct pattern in it was classified
SlashWithPatterns ==
    /\ Classified
    /\ FirstCharSlash
    /\ arg.words = <<"/status", "task", "code">>
    /\ ret.value.route = "agent"

(***************************************************************************)
(* Mode toggles                                                            *)
(***************************************************************************)
\* C14: a turn whose user message is a mode toggle makes no call to an LLM
\* backend - local, premium or flush summary - before its canned
\* acknowledgement, whatever the session, one over the flush threshold
\* included.
ToggleCallsNoBackend ==
    turn.path = "command" => (turn.backend_calls = 0 /\ turn.flush_calls = 0)

\* C15: for the owner an activate toggle ends with god_mode on and a deactivate
\* toggle with god_mode off (so activate then deactivate from off, and
\* deactivate then activate from on, restore the flag), and a toggle turn
\* leaves the session's messages, total_tokens and tool_calls as they were.
ToggleTouchesOnlyTheFlag ==
    [][(turn.path # "command" /\ turn'.path = "command" /\ turn'.person_id = Owner) =>
          LET cmd == check_godmode_command(turn'.user_message)
          IN /\ cmd = "activate" => sessions'[Owner].god_mode
             /\ cmd = "deactivate" => ~sessions'[Owner].god_mode
             /\ HasSession(sessions, Owner) =>
                    /\ sessions'[Owner].messages = sessions[Owner].messages
                    /\ sessions'[Owner].total_tokens = sessions[Owner].total_tokens
                    /\ sessions'[Owner].tool_calls = sessions[Owner].tool_calls]_vars

(***************************************************************************)
(* The retriever and the workspace                                         *)
(***************************************************************************)
\* C16: for a caller other than the owner the lexical search is not invoked
\* and the result depends on the caller-filtered vector hits only: with any
\* other content of the lexical index the retriever returns the same.
LexicalSearchOwnerOnly ==
    (ret.op = "hybrid_search" /\ arg.person_id # Owner) =>
        /\ ~ret.bm25_called
        /\ \A index \in LexicalIndexes :
               hybrid_search(build, arg.query, arg.person_id, arg.mem, arg.conv,
                             index).value = ret.value

\* a guest's retrieval that found a memory by vectors while the index holds a
\* better match and a memory the vectors do not find
GuestSearchedLoadedIndex ==
    /\ ret.op = "hybrid_search"
    /\ arg.person_id = Guest
    /\ Len(arg.index) = 2
    /\ ret.vector_called
    /\ ret.value = <<"b">>

\* the turn has a system prompt: it went past the commands to a backend
Prompted == turn.path \notin {"none", "command"}

\* C17: within a chat turn the retriever runs only if the user message holds a
\* question mark or an interrogative word; a turn without one runs neither the
\* vector nor the lexical search.
RetrieverGatedByQuestion ==
    (turn.vector_searches > 0 \/ turn.lexical_searches > 0) =>
        turn.user_message \in QuestionMessages

\* C18: for a caller other than the owner the workspace part of the system
\* prompt is the fallback persona line and nothing read from the workspace.
GuestPromptHasNoWorkspace ==
    (Prompted /\ turn.person_id # Owner) => turn.workspace_ctx = {"FALLBACK"}

(***************************************************************************)
(* truncate_context_if_needed                                              *)
(***************************************************************************)
Truncated == ret.op = "truncate_context_if_needed"

InputTokens == estimate_tokens(PromptLen(arg.system_prompt)) + estimate_messages_tokens(CallMessages)

Budget == context_window - min_response_tokens

\* C19: the pair truncate_context_if_needed returns is estimated at no more
\* than context_window - min_response_tokens, unless the system prompt was cut
\* down to its floor length - also when the function returns after trimming
\* part of the RAG block.
ReturnedPairWithinBudget ==
    Truncated =>
        \/ estimate_tokens(PromptLen(ret.system_prompt))
               + estimate_messages_tokens(ret.messages) <= Budget
        \/ ret.target_len = prompt_floor

\* C20: when the context overflows and the RAG block costs at least the
\* overflow, the messages come back as they were given and the system prompt
\* differs inside the RAG block only; when the input is within the budget,
\* both come back unchanged.
OnlyRagTrimmedWhenRagCovers ==
    Truncated =>
        /\ InputTokens <= Budget =>
               /\ ret.system_prompt = arg.system_prompt
               /\ ret.messages = CallMessages
        /\ (/\ InputTokens > Budget
            /\ arg.system_prompt.mk = rag_marker
            /\ estimate_tokens(arg.system_prompt.rag) >= InputTokens - Budget) =>
               /\ ret.messages = CallMessages
               /\ ret.system_prompt.head = arg.system_prompt.head
               /\ ret.system_prompt.mk = arg.system_prompt.mk
               /\ ret.system_prompt.rest = arg.system_prompt.rest
               /\ ret.system_prompt.tail = 0

\* an overflow smaller than the RAG block, with more than two messages to
\* drop, ended with the block trimmed
RagTrimmedWithHistoryAtHand ==
    /\ Truncated
    /\ InputTokens > Budget
    /\ estimate_tokens(arg.system_prompt.rag) > InputTokens - Budget
    /\ Len(CallMessages) > 2
    /\ ret.system_prompt.note = 15
    /\ ret.system_prompt.rag < arg.system_prompt.rag

(***************************************************************************)
(* calculate_dynamic_max_tokens                                            *)
(***************************************************************************)
Budgeted == ret.op = "calculate_dynamic_max_tokens"

\* C - I - S of the call
Available == context_window - InputEstimate(build, arg.prompt_len, arg.messages) - reserve

MCPInitialized == ret.op = "init_mcp"

\* the servers whose tools the agent has: those it was built over, none
\* when there is no agent
ActiveTools == IF ret.agent_available THEN ret.agent_servers ELSE {}

\* the two lists split the configured servers
HealthyFailedPartition ==
    MCPInitialized =>
        /\ Range(ret.healthy_servers) \cap Range(ret.failed_servers) = {}
        /\ Range(ret.healthy_servers) \cup Range(ret.failed_servers) = Range(arg.servers)
        /\ Len(ret.healthy_servers) + Len(ret.failed_servers) = Len(arg.servers)

\* C22: after the combined initialization failed and every server was
\* probed, healthy_servers and failed_servers split the configured servers, no
\* server whose probe failed is in the agent's active tool set, and that set
\* is exactly the healthy servers; after it succeeded all servers are healthy
\* and none is failed.
DegradedAgentHasHealthyServers ==
    (MCPInitialized /\ build = "v12" /\ arg.servers # <<>>) =>
        /\ Range(ret.healthy_servers) \cap Range(ret.failed_servers) = {}
        /\ Range(ret.healthy_servers) \cup Range(ret.failed_servers) = Range(arg.servers)
        /\ Range(ret.failed_servers) \cap ActiveTools = {}
        /\ ActiveTools = Range(ret.healthy_servers)
        /\ arg.combined_ok => /\ ret.healthy_servers = arg.servers
                              /\ ret.failed_servers = <<>>

FactInsertedAtMostOnce ==
    \A i, j \in DOMAIN milvus :
        (/\ milvus[i].person_id = milvus[j].person_id
         /\ milvus[i].source_session_id = milvus[j].source_session_id
         /\ milvus[i].content = milvus[j].content) => i = j

(***************************************************************************)
(* workspace cache                                                         *)
(***************************************************************************)
ReadStep == ret'.op = "read" /\ ops' = ops + 1 /\ ret'.n = ops'

\* a read after a completed write reads today's file again
ReadAfterWriteRereads ==
    (ReadStep /\ workspace.written) =>
        /\ Today \in ret'.read
        /\ ret'.value[Today] = workspace.files[Today]

AutoFlushFailureIsNotFatal ==
    [][(build = "v12.2" /\ turn.flush_result = "" /\ turn'.flush_result = "failed") =>
          LET p == turn.person_id
              before == add_message_v12(sessions, p, "assistant",
                                        Text(StrLen(turn'.reply)), nextSid, now)[p]
          IN /\ turn'.pc = "done"
             /\ sessions'[p] = before
             /\ before.total_tokens > flush_threshold /\ ~sessions'[p].flush_done
      ]_vars

\* animara_rag_proxy_v12.py: the same, for the rows of one session
FactSavedAtMostOnce ==
    build = "v12.2" => FactInsertedAtMostOnce

(***************************************************************************)
(* two requests of one caller in flight                                    *)
(***************************************************************************)
\* C25: the appends of two turns of one caller that are in flight together
\* are not interleaved: a turn appends nothing to the session once the user
\* message of the other turn stands behind its own.
TurnsNotInterleaved ==
    [][~(/\ turn.first > 0
         /\ parked.person_id = turn.person_id
         /\ parked.first > turn.first
         /\ turn'.person_id = turn.person_id /\ turn'.first = turn.first
         /\ sessions'[turn.person_id].session_id = sessions[turn.person_id].session_id
         /\ sessions'[turn.person_id].appended > sessions[turn.person_id].appended)
      ]_vars

(***************************************************************************)
(* requests without a user message                                         *)
(***************************************************************************)
\* C26: a request whose messages are missing or empty, or whose user message
\* is empty, is answered with status 400 and its handling makes no backend
\* call.
EmptyRequestIsRejected ==
    (turn.pc # "idle" /\ turn.user_message = "") =>
        /\ turn.backend_calls = 0
        /\ turn.pc \notin {"llm", "god_llm"}
        /\ turn.pc \in {"done", "raised"} => status_code(turn) = 400

(***************************************************************************)
(* the tool counter of a session                                           *)
(***************************************************************************)
\* C28: session.tool_calls equals the number of tool executions made for the
\* session since it was created, in the local loop and in the god-mode loop
\* alike: when the first turn on a new session has ended, the counter is the
\* number of execute_tool calls of that turn.
ToolCallsCountExecutions ==
    (turn.pc \in {"done", "raised"} /\ HasSession(sessions, turn.person_id)) =>
        sessions[turn.person_id].tool_calls = Len(turn.execs)

(***************************************************************************)
(* pruning of old tool results                                             *)
(***************************************************************************)
\* a tool result that has been cut: prune_tool_max_chars characters and the marker
PrunedShape(m) ==
    /\ m.content.pruned
    /\ m.content.len = prune_tool_max_chars + PrunedMarkerLen
    /\ m.tokens = count_tokens(m.content)

OldToolResultsArePruned ==
    \A p \in Callers :
        (build \in CoreBuilds /\ HasSession(sessions, p)) =>
            LET msgs == sessions[p].messages
            IN \A i \in 1..Len(msgs) :
                 /\ (i < PruneBefore(msgs) /\ msgs[i].is_tool) =>
                        \/ ~msgs[i].content.pruned
                           /\ msgs[i].content.len <= prune_tool_max_chars
                        \/ PrunedShape(msgs[i])
                 /\ msgs[i].content.pruned => (i < PruneBefore(msgs) /\ msgs[i].is_tool)

\* C29: after add_message every tool result over prune_tool_max_chars that
\* stands before the prune_after_messages-th most recent assistant message is
\* its first prune_tool_max_chars characters and the marker; a message that
\* was already cut keeps its content and its token estimate on later appends,
\* and tool results at or after that assistant message and all messages that
\* are no tool results are untouched.
PruningCutsOldToolResultsOnce ==
    [][/\ OldToolResultsArePruned'
       /\ \A p \in Callers :
            (/\ build \in CoreBuilds
             /\ HasSession(sessions, p) /\ HasSession(sessions', p)
             /\ sessions'[p].session_id = sessions[p].session_id) =>
                LET old == sessions[p].messages
                    new == sessions'[p].messages
                IN \A i \in 1..Len(old) : \A j \in 1..Len(new) :
                     old[i].id = new[j].id =>
                        /\ old[i].content.pruned => new[j] = old[i]
                        /\ ~old[i].is_tool => new[j] = old[i]
                        /\ j >= PruneBefore(new) => new[j] = old[i]
                        /\ new[j] # old[i] =>
                              /\ old[i].content.len > prune_tool_max_chars
                              /\ j < PruneBefore(new)
                              /\ PrunedShape(new[j])
      ]_vars

\* a tool result was cut at least one append ago, and a later long tool
\* result stands uncut behind it
ToolResultStayedPrunedOnLaterAppends ==
    /\ build = "core"
    /\ HasSession(sessions, Owner)
    /\ LET msgs == sessions[Owner].messages
       IN \E i \in 1..Len(msgs) : \E j \in 1..Len(msgs) :
            /\ i < j
            /\ PrunedShape(msgs[i])
            /\ Cardinality({k \in i..Len(msgs) : msgs[k].role = "assistant"}) > prune_after_messages
            /\ msgs[j].is_tool /\ ~msgs[j].content.pruned
            /\ msgs[j].content.len > prune_tool_max_chars

(***************************************************************************)
(* the session a successful flush leaves                                   *)
(***************************************************************************)
\* C30: a memory flush that succeeds on a session of n messages leaves its
\* last min(3, n) messages in their order, total_tokens the sum of their
\* estimates, flush_count one higher, and session_id, god_mode and
\* tool_calls as they were.
SuccessfulFlushKeepsLastThree ==
    [][(turn.pc = "flush" /\ turn'.flush_calls = turn.flush_calls + 1
                          /\ turn'.flush_result = "done") =>
          LET s == sessions[turn.person_id]
              a == turn'.after_flush
              n == Len(s.messages)
              k == Min(3, n)
          IN /\ Len(a.messages) = k
             /\ \A i \in 1..k : a.messages[i] = s.messages[n - k + i]
             /\ a.total_tokens = SumTokens(a.messages)
             /\ a.flush_count = s.flush_count + 1
             /\ a.session_id = s.session_id
             /\ a.god_mode = s.god_mode
             /\ a.tool_calls = s.tool_calls
      ]_vars

\* a flush has succeeded on a session that held more than three messages
FlushedSessionOfMoreThanThree ==
    /\ turn.flush_result = "done"
    /\ turn.after_flush.session_id # 0
    /\ Len(turn.after_flush.messages) = 3
    /\ turn.after_flush.appended > 3
    /\ turn.after_flush.flush_count = 1
    /\ turn.after_flush.total_tokens = SumTokens(turn.after_flush.messages)

(***************************************************************************)
(* the token estimate of a text                                            *)
(***************************************************************************)
\* C31: the estimate of a text is 0 for the empty text and
\* max(1, ceil(len / 3)) for every other text.
EstimateIsCeilingOfThird ==
    ret.op = "estimate_tokens" =>
        ret.value = IF ret.len = 0 THEN 0 ELSE Max(1, (ret.len + 2) \div 3)

(***************************************************************************)
(* the mode commands of the v12 processor                                  *)
(***************************************************************************)
\* C32: each phrase of the deactivation list, sent as the whole message,
\* leaves god_mode false and is answered with the acknowledgement of the
\* local mode; each phrase of the activation list leaves it true and is
\* answered with the acknowledgement of god mode.
PhrasesSetTheirMode ==
    ret.op = "process" =>
        /\ ret.input \in local_phrases =>
              /\ ~sessions[ret.caller].god_mode
              /\ ret.content = "GOD_OFF" /\ ~ret.god_mode
        /\ ret.input \in god_phrases =>
              /\ sessions[ret.caller].god_mode
              /\ ret.content = "GOD_ON" /\ ret.god_mode

(***************************************************************************)
(* the budget of v12 against the context window                            *)
(***************************************************************************)
\* estimate_messages_tokens of the list the v12 function was called with
InputTokensV12 == estimate_messages_tokens(arg.messages)

FilterSelectsOrFallsBack ==
    ret.op = "filter_mcp_config" =>
        LET named == {n \in arg.full_config : n \in arg.needed_tools}
        IN /\ (arg.needed_tools = {} \/ named = {}) => ret.value = arg.full_config
           /\ (arg.needed_tools # {} /\ named # {}) => ret.value = named
           /\ ret.value \subseteq arg.full_config
           /\ arg.full_config # {} => ret.value # {}

\* needed_tools named servers outside the configuration only, and the whole
\* configuration came back
FilterFellBackOnUnknownNames ==
    /\ ret.op = "filter_mcp_config"
    /\ arg.needed_tools # {}
    /\ arg.full_config # {}
    /\ arg.needed_tools \cap arg.full_config = {}
    /\ ret.value = arg.full_config

(***************************************************************************)
(* god mode belongs to the owner                                           *)
(***************************************************************************)
\* C35: in the core proxy a session in god mode is the owner's; the
\* activation phrase of another caller is answered with the refusal and
\* leaves that caller's session out of god mode, and no turn of that caller
\* goes to the premium backend.
GodModeIsTheOwners ==
    /\ \A p \in Callers :
         (HasSession(sessions, p) /\ sessions[p].god_mode) => p = Owner
    /\ (turn.pc # "idle" /\ turn.person_id # Owner) =>
          /\ turn.path \notin {"god", "codex"}
          /\ turn.pc \notin {"god_llm", "god_tool", "codex"}
          /\ (turn.pc = "done" /\ check_godmode_command(turn.user_message) = "activate") =>
                /\ turn.reply = <<"OWNER_ONLY">>
                /\ turn.backend_calls = 0

\* the other caller, refused on an earlier turn or never in god mode, is
\* served by the local backend while the owner's session is in god mode
GuestServedLocallyBesideGodOwner ==
    /\ turn.person_id = Guest
    /\ turn.path = "local" /\ turn.pc = "done"
    /\ HasSession(sessions, Owner) /\ sessions[Owner].god_mode
    /\ HasSession(sessions, Guest) /\ ~sessions[Guest].god_mode

(***************************************************************************)
(* tools and callers other than the owner                                  *)
(***************************************************************************)
\* C36: during a turn of a caller other than the owner no tool handler is
\* executed, whatever text the backend returns.
NoToolRunsForOtherCallers ==
    (turn.pc # "idle" /\ turn.person_id # Owner) =>
        /\ turn.handler_runs = 0
        /\ turn.execs = <<>>
        /\ turn.pc \notin {"tool", "god_tool"}

(***************************************************************************)
(* the session right after a successful flush                              *)
(***************************************************************************)
\* C37: right after a memory flush has succeeded the session is no longer
\* flushable: its total_tokens is at most flush_threshold.
FlushedSessionIsNotFlushable ==
    (turn.flush_result = "done" /\ turn.after_flush.session_id # 0) =>
        ~needs_flush(turn.after_flush)

(***************************************************************************)
(* what pruning does to the size of a tool result                          *)
(***************************************************************************)
\* C38: pruning a tool result never increases its content length or its
\* stored token estimate, and a step that prunes leaves total_tokens equal
\* to the sum of the stored estimates when it was equal before, for every
\* original length above prune_tool_max_chars.
PruningNeverGrowsAToolResult ==
    [][\A p \in Callers :
         (/\ build \in CoreBuilds
          /\ HasSession(sessions, p) /\ HasSession(sessions', p)
          /\ sessions'[p].session_id = sessions[p].session_id) =>
             LET old == sessions[p].messages
                 new == sessions'[p].messages
                 cut == {<<i, j>> \in (1..Len(old)) \X (1..Len(new)) :
                            old[i].id = new[j].id /\ new[j] # old[i]}
             IN /\ \A c \in cut :
                     /\ new[c[2]].content.len <= old[c[1]].content.len
                     /\ new[c[2]].tokens <= old[c[1]].tokens
                /\ (cut # {} /\ sessions[p].total_tokens = SumTokens(old)) =>
                       sessions'[p].total_tokens = SumTokens(new)
      ]_vars

(***************************************************************************)
(* a flush beside the turns of the same caller                             *)
(***************************************************************************)
\* C39: every message that the compaction of a flush drops was part of the
\* dialogue that flush summarized, also when another turn of the caller has
\* appended messages while the summary was awaited.
FlushDropsOnlySummarized ==
    [][(/\ turn.pc \in {"flush", "flush_forced"}
        /\ turn'.flush_calls = turn.flush_calls + 1
        /\ turn'.flush_result = "done") =>
          get_full_context(sessions[turn.person_id])
              \ get_full_context(turn'.after_flush) \subseteq turn.flush_context
      ]_vars

=============================================================================
